---------------------------- MODULE Spec2Model ----------------------------
(***************************************************************************)
(* Model of the Bulk Tag Utility (bulk-tag-utility/bulk_tag_utility.py):   *)
(* the UndoManager history, the seven-operation tag pipeline               *)
(* (apply_operations_to_file) and the batch / preview / undo handlers.     *)
(*                                                                         *)
(* Python lists are 0-based, TLA+ sequences 1-based: the element at Python *)
(* index i is seq[i + 1].  current_index keeps its Python value.           *)
(***************************************************************************)
EXTENDS Integers, Sequences, FiniteSets, TLC

\* ------------------------------------------------------------------------
\* Bounds of the model
\* ------------------------------------------------------------------------
MaxMaxHistory == 3      \* max_history ranges over 1 .. MaxMaxHistory
MaxRecords    == 9      \* record_action calls in one behaviour (the clock)
MaxBatches    == 2      \* apply_changes runs that reach record_action
MaxPipelineRuns == 2    \* direct apply_operations_to_file calls in one behaviour

\* the action names record_action is called with
ActionNames == {0, 1}

VARIABLES
    max_history,        \* UndoManager.max_history
    history,            \* UndoManager.history
    current_index,      \* UndoManager.current_index
    now,                \* datetime.now(): a clock that ticks on every reading
    umOp,               \* the UndoManager operation that ran last
    umPre,              \* history and current_index as that operation found them
    umRet,              \* what that operation returned
    log,                \* every entry handed to record_action, in order
    streak,             \* record_action calls since the last undo()
    audio_files,        \* BulkTagUtility.audio_files: the AudioFile objects
    heap,               \* the dict objects; an address is an index of heap
    cfg,                \* the operation widgets: flags and parameters
    handler,            \* the command that ran last, "idle" once a widget changed
    saves,              \* the save_tags calls it made, in order
    pipeRuns,           \* the apply_operations_to_file calls it made, in order
    outcome,            \* how apply_changes ended, None for other handlers
    comm_eng,           \* quick_tag_actions: the text of audio['COMM::eng'], None without the frame
    qtArgs,             \* the arguments of the last set_tag_list call
    qtRet,              \* what get_tag_list returned for the comment as it is
    qaRun,              \* quick_tag_actions: the last apply_actions call as an observer sees it
    mgFile,             \* migrate_tags: the tags stored in the file, None for no file
    mgRun,              \* migrate_tags: the last migrate_file call as an observer sees it
    files,              \* tag_editor_gui: self.files
    preview_data,       \* tag_editor_gui: self.preview_data
    comments,           \* tag_editor_gui: the COMM::eng text list stored in each MP3 file
    edRun               \* tag_editor_gui: the last handler and the files it wrote

undoVars == <<max_history, history, current_index, now>>
undoObs  == <<umOp, umPre, umRet, log, streak>>
appVars  == <<audio_files, heap, cfg>>
appObs   == <<handler, saves, pipeRuns, outcome>>
editorVars == <<files, preview_data, comments, edRun>>
extraVars == <<qaRun, mgFile, mgRun, editorVars>>
toolVars == <<comm_eng, qtArgs, qtRet, extraVars>>
vars     == <<undoVars, undoObs, appVars, appObs, toolVars>>

\* Python's None
None == [none |-> TRUE]

\* no quick_tag_actions file is open
NoEditor == files = << >> /\ preview_data = << >> /\ comments = << >> /\ edRun = None
NoExtraCall == qaRun = None /\ mgFile = None /\ mgRun = None /\ NoEditor
NoToolCall == comm_eng = None /\ qtArgs = None /\ qtRet = None /\ NoExtraCall

\* ------------------------------------------------------------------------
\* class UndoManager
\* ------------------------------------------------------------------------

\* history[:k] for 0 <= k
Prefix(s, k) == SubSeq(s, 1, IF k < Len(s) THEN k ELSE Len(s))

\* the dict record_action appends
HistoryEntry(action_name, timestamp, files_snapshot) ==
    [name |-> action_name, timestamp |-> timestamp, snapshots |-> files_snapshot]

\* record_action evicting the newest entry instead of the oldest
record_action_evictNewest(h, idx, maxh, entry) ==
    LET cut      == Prefix(h, idx + 1)
        appended == Append(cut, entry)
    IN  IF Len(appended) > maxh
        THEN [history |-> Prefix(appended, Len(appended) - 1), current_index |-> idx]
        ELSE [history |-> appended, current_index |-> idx + 1]

\* record_action without the truncation of the redo history
record_action_keepRedo(h, idx, maxh, entry) ==
    LET appended == Append(h, entry)
    IN  IF Len(appended) > maxh
        THEN [history |-> Tail(appended), current_index |-> idx]
        ELSE [history |-> appended,       current_index |-> idx + 1]

\* a record_action that advances current_index also when it evicts
record_action_alwaysAdvance(h, idx, maxh, entry) ==
    LET cut      == Prefix(h, idx + 1)
        appended == Append(cut, entry)
    IN  IF Len(appended) > maxh
        THEN [history |-> Tail(appended), current_index |-> idx + 1]
        ELSE [history |-> appended,       current_index |-> idx + 1]

\* UndoManager.record_action: the manager's fields after the call
record_action(h, idx, maxh, entry) ==
    LET cut      == Prefix(h, idx + 1)
        appended == Append(cut, entry)
    IN  IF Len(appended) > maxh
        THEN [history |-> Tail(appended), current_index |-> idx]
        ELSE [history |-> appended,       current_index |-> idx + 1]

can_undo(h, idx) == idx >= 0

\* can_redo off by one
can_redo_offByOne(h, idx) == idx < Len(h) - 2

can_redo(h, idx) == idx < Len(h) - 1

\* undo that forgets to move the position
undo_noDecrement(h, idx) ==
    IF ~can_undo(h, idx)
    THEN [ret |-> None,       current_index |-> idx]
    ELSE [ret |-> h[idx + 1], current_index |-> idx]

\* UndoManager.undo: the value returned and the position afterwards
undo(h, idx) ==
    IF ~can_undo(h, idx)
    THEN [ret |-> None,       current_index |-> idx]
    ELSE [ret |-> h[idx + 1], current_index |-> idx - 1]

\* a redo that jumps to the newest entry
redo_toNewest(h, idx) ==
    IF ~can_redo(h, idx)
    THEN [ret |-> None,      current_index |-> idx]
    ELSE [ret |-> h[Len(h)], current_index |-> Len(h) - 1]

\* UndoManager.redo: the value returned and the position afterwards
redo(h, idx) ==
    IF ~can_redo(h, idx)
    THEN [ret |-> None,             current_index |-> idx]
    ELSE [ret |-> h[(idx + 1) + 1], current_index |-> idx + 1]

\* ------------------------------------------------------------------------
\* Python strings: sequences of one-character strings over a small alphabet
\* (letters x X y Y, the space, "-", "(" and the backslash)
\* ------------------------------------------------------------------------
IsLowerChar(c) == c \in {"x", "y"}
IsUpperChar(c) == c \in {"X", "Y"}
IsCased(c)     == IsLowerChar(c) \/ IsUpperChar(c)
IsSpace(c)     == c = " "

UpperChar(c) == CASE c = "x" -> "X" [] c = "y" -> "Y" [] OTHER -> c
LowerChar(c) == CASE c = "X" -> "x" [] c = "Y" -> "y" [] OTHER -> c

\* str.upper, str.lower
str_upper(s) == [i \in 1 .. Len(s) |-> UpperChar(s[i])]
str_lower(s) == [i \in 1 .. Len(s) |-> LowerChar(s[i])]

\* str.title: a cased character is upper-cased when the character before it
\* is not cased, lower-cased otherwise
str_title(s) ==
    [i \in 1 .. Len(s) |->
        IF i > 1 /\ IsCased(s[i - 1]) THEN LowerChar(s[i]) ELSE UpperChar(s[i])]

\* str.capitalize: first character upper-cased, every other one lower-cased
str_capitalize(s) ==
    [i \in 1 .. Len(s) |-> IF i = 1 THEN UpperChar(s[i]) ELSE LowerChar(s[i])]

\* number of leading / trailing whitespace characters
LeadingSpaces(s) ==
    CHOOSE k \in 0 .. Len(s) :
        /\ \A i \in 1 .. k : IsSpace(s[i])
        /\ (k = Len(s) \/ ~IsSpace(s[k + 1]))

TrailingSpaces(s) ==
    CHOOSE k \in 0 .. Len(s) :
        /\ \A i \in (Len(s) - k + 1) .. Len(s) : IsSpace(s[i])
        /\ (k = Len(s) \/ ~IsSpace(s[Len(s) - k]))

\* str.lstrip, str.rstrip, str.strip
str_lstrip(s) == SubSeq(s, LeadingSpaces(s) + 1, Len(s))
str_rstrip(s) == SubSeq(s, 1, Len(s) - TrailingSpaces(s))
str_strip(s)  == str_rstrip(str_lstrip(s))

\* pat occurs in s at position i (1-based); ci: ignoring case
MatchAt(s, i, pat, ci) ==
    /\ i + Len(pat) - 1 <= Len(s)
    /\ \A j \in 1 .. Len(pat) :
          IF ci THEN LowerChar(s[i + j - 1]) = LowerChar(pat[j])
                ELSE s[i + j - 1] = pat[j]

\* every non-overlapping occurrence of the non-empty pat, leftmost first,
\* replaced by rep: str.replace, and re.sub of a literal pattern
RECURSIVE SubstFrom(_, _, _, _, _)
SubstFrom(s, i, pat, rep, ci) ==
    IF i > Len(s) THEN << >>
    ELSE IF MatchAt(s, i, pat, ci)
         THEN rep \o SubstFrom(s, i + Len(pat), pat, rep, ci)
         ELSE <<s[i]>> \o SubstFrom(s, i + 1, pat, rep, ci)

str_replace(s, old, new) == SubstFrom(s, 1, old, new, FALSE)

\* str.split(sep, 1) for a non-empty sep: one or two parts
str_split1(s, sep) ==
    LET hits == {i \in 1 .. Len(s) : MatchAt(s, i, sep, FALSE)}
    IN  IF hits = {} THEN <<s>>
        ELSE LET i == CHOOSE h \in hits : \A g \in hits : h <= g
             IN  <<SubSeq(s, 1, i - 1), SubSeq(s, i + Len(sep), Len(s))>>

\* ------------------------------------------------------------------------
\* module re on this alphabet.  A pattern is a literal text or an error:
\* "(" opens a group that nothing closes, a backslash escapes the character
\* after it ("\\", "\ ", "\-", "\(" are that character; a letter after a
\* backslash is a bad or incomplete escape, a backslash at the end an error).
\* A replacement template is a literal text or an error the same way, except
\* that "(" is an ordinary character and a backslash before a character that
\* is neither a letter nor a backslash stays in the text.
\* ------------------------------------------------------------------------
ReError == [ok |-> FALSE, text |-> << >>]
ReOk(t) == [ok |-> TRUE,  text |-> t]

RECURSIVE re_parse(_, _)
re_parse(pat, i) ==
    IF i > Len(pat) THEN ReOk(<< >>)
    ELSE IF pat[i] = "("  THEN ReError
    ELSE IF pat[i] = "\\"
         THEN IF i = Len(pat) \/ IsCased(pat[i + 1]) THEN ReError
              ELSE LET rest == re_parse(pat, i + 2)
                   IN  IF rest.ok THEN ReOk(<<pat[i + 1]>> \o rest.text) ELSE ReError
    ELSE LET rest == re_parse(pat, i + 1)
         IN  IF rest.ok THEN ReOk(<<pat[i]>> \o rest.text) ELSE ReError

RECURSIVE re_parse_template(_, _)
re_parse_template(repl, i) ==
    IF i > Len(repl) THEN ReOk(<< >>)
    ELSE IF repl[i] = "\\"
         THEN IF i = Len(repl) \/ IsCased(repl[i + 1]) THEN ReError
              ELSE LET rest == re_parse_template(repl, i + 2)
                       lit  == IF repl[i + 1] = "\\" THEN <<"\\">>
                               ELSE <<"\\", repl[i + 1]>>
                   IN  IF rest.ok THEN ReOk(lit \o rest.text) ELSE ReError
    ELSE LET rest == re_parse_template(repl, i + 1)
         IN  IF rest.ok THEN ReOk(<<repl[i]>> \o rest.text) ELSE ReError

\* re.escape(find): a backslash before every character special to re
RECURSIVE re_escape(_)
re_escape(find) ==
    IF find = << >> THEN << >>
    ELSE (IF Head(find) \in {"(", "-", " ", "\\"}
          THEN <<"\\", Head(find)>> ELSE <<Head(find)>>) \o re_escape(Tail(find))

\* re.sub(pattern, repl, string, flags): the new string, or re.error
re_sub(pattern, repl, string, ignorecase) ==
    LET pat  == re_parse(pattern, 1)
        tmpl == re_parse_template(repl, 1)
    IN  IF ~pat.ok \/ ~tmpl.ok THEN ReError
        ELSE ReOk(SubstFrom(string, 1, pat.text, tmpl.text, ignorecase))

\* ------------------------------------------------------------------------
\* Tag records: Python dicts from field name to string
\* ------------------------------------------------------------------------

\* the recognised field names (three of the seventeen of the source; the
\* pipeline treats every field alike)
TAG_FIELDS == {"title", "artist", "comment"}

\* the extra entry of the Trim combobox
ALL_FIELDS == "ALL FIELDS"

EmptyDict == [k \in {} |-> << >>]

\* d[k] = v
DictSet(d, k, v) == (k :> v) @@ d

\* what one operation block leaves behind: the dict, or an exception
Done(tags)   == [raised |-> FALSE, tags |-> tags]
Raised(tags) == [raised |-> TRUE,  tags |-> tags]

\* Replace without the try of its regex branch
OpReplace_regexUnguarded(tags, c) ==
    IF c.replace_field \in DOMAIN tags /\ c.replace_find # << >>
    THEN LET original == tags[c.replace_field]
         IN  IF c.replace_use_regex
             THEN LET r == re_sub(c.replace_find, c.replace_with, original,
                                  ~c.replace_case_sensitive)
                  IN  IF r.ok THEN Done(DictSet(tags, c.replace_field, r.text))
                      ELSE Raised(tags)
             ELSE IF c.replace_case_sensitive
                  THEN Done(DictSet(tags, c.replace_field,
                                    str_replace(original, c.replace_find, c.replace_with)))
                  ELSE LET r == re_sub(re_escape(c.replace_find), c.replace_with,
                                       original, TRUE)
                       IN  IF r.ok THEN Done(DictSet(tags, c.replace_field, r.text))
                           ELSE Raised(tags)   \* re.error, outside any try
    ELSE Done(tags)

\* Operation 1: Replace (with Regex support)
OpReplace(tags, c) ==
    IF c.replace_field \in DOMAIN tags /\ c.replace_find # << >>
    THEN LET original == tags[c.replace_field]
         IN  IF c.replace_use_regex
             THEN LET r == re_sub(c.replace_find, c.replace_with, original,
                                  ~c.replace_case_sensitive)
                  IN  IF r.ok THEN Done(DictSet(tags, c.replace_field, r.text))
                      ELSE Done(tags)          \* except re.error: print
             ELSE IF c.replace_case_sensitive
                  THEN Done(DictSet(tags, c.replace_field,
                                    str_replace(original, c.replace_find, c.replace_with)))
                  ELSE LET r == re_sub(re_escape(c.replace_find), c.replace_with,
                                       original, TRUE)
                       IN  IF r.ok THEN Done(DictSet(tags, c.replace_field, r.text))
                           ELSE Raised(tags)   \* re.error, outside any try
    ELSE Done(tags)

\* Operation 2: Trim
OpTrim(tags, c) ==
    LET trimmed(v) ==
            LET v1 == IF c.trim_leading THEN str_lstrip(v) ELSE v
            IN  IF c.trim_trailing THEN str_rstrip(v1) ELSE v1
    IN  Done([f \in DOMAIN tags |->
                 IF c.trim_field = ALL_FIELDS \/ f = c.trim_field
                 THEN trimmed(tags[f]) ELSE tags[f]])

\* Operation 3: Copy Field
OpCopy(tags, c) ==
    IF c.copy_from \in DOMAIN tags
    THEN LET source_value == tags[c.copy_from]
         IN  IF c.copy_append /\ c.copy_to \in DOMAIN tags
             THEN Done(DictSet(tags, c.copy_to,
                               tags[c.copy_to] \o <<" ">> \o source_value))
             ELSE Done(DictSet(tags, c.copy_to, source_value))
    ELSE Done(tags)

\* Operation 4: Change Case
OpCase(tags, c) ==
    IF c.case_field \in DOMAIN tags
    THEN LET value == tags[c.case_field]
         IN  CASE c.case_mode = "upper"    -> Done(DictSet(tags, c.case_field, str_upper(value)))
               [] c.case_mode = "lower"    -> Done(DictSet(tags, c.case_field, str_lower(value)))
               [] c.case_mode = "title"    -> Done(DictSet(tags, c.case_field, str_title(value)))
               [] c.case_mode = "sentence" -> Done(DictSet(tags, c.case_field, str_capitalize(value)))
               [] OTHER                    -> Done(tags)
    ELSE Done(tags)

\* Operation 5: Add Prefix/Suffix
OpAdd(tags, c) ==
    IF c.add_field \in DOMAIN tags
    THEN Done(DictSet(tags, c.add_field,
                      c.add_prefix \o tags[c.add_field] \o c.add_suffix))
    ELSE Done(tags)

\* Operation 6: Remove Text
OpRemove(tags, c) ==
    IF c.remove_field \in DOMAIN tags /\ c.remove_text # << >>
    THEN Done(DictSet(tags, c.remove_field,
                      str_replace(tags[c.remove_field], c.remove_text, << >>)))
    ELSE Done(tags)

\* Split cutting at every occurrence: the right part ends at the second one
OpSplit_everyOccurrence(tags, c) ==
    IF c.split_source \in DOMAIN tags /\ c.split_separator # << >>
    THEN LET parts == str_split1(tags[c.split_source], c.split_separator)
         IN  IF Len(parts) = 2
             THEN Done(DictSet(DictSet(tags, c.split_left_field, str_strip(parts[1])),
                               c.split_right_field,
                               str_strip(str_split1(parts[2], c.split_separator)[1])))
             ELSE Done(DictSet(tags, c.split_left_field, str_strip(parts[1])))
    ELSE Done(tags)

\* Split without the strip() of the two parts
OpSplit_untrimmed(tags, c) ==
    IF c.split_source \in DOMAIN tags /\ c.split_separator # << >>
    THEN LET parts == str_split1(tags[c.split_source], c.split_separator)
         IN  IF Len(parts) = 2
             THEN Done(DictSet(DictSet(tags, c.split_left_field, parts[1]),
                               c.split_right_field, parts[2]))
             ELSE Done(DictSet(tags, c.split_left_field, parts[1]))
    ELSE Done(tags)

\* Operation 7: Split Field
OpSplit(tags, c) ==
    IF c.split_source \in DOMAIN tags /\ c.split_separator # << >>
    THEN LET parts == str_split1(tags[c.split_source], c.split_separator)
         IN  IF Len(parts) = 2
             THEN Done(DictSet(DictSet(tags, c.split_left_field, str_strip(parts[1])),
                               c.split_right_field, str_strip(parts[2])))
             ELSE Done(DictSet(tags, c.split_left_field, str_strip(parts[1])))
    ELSE Done(tags)

\* the Trim block running whatever its check box says
OpEnabled_trimUnguarded(kind, c) ==
    CASE kind = "replace" -> c.op_replace_var
      [] kind = "trim"    -> TRUE
      [] kind = "copy"    -> c.op_copy_var
      [] kind = "case"    -> c.op_case_var
      [] kind = "add"     -> c.op_add_var
      [] kind = "remove"  -> c.op_remove_var
      [] kind = "split"   -> c.op_split_var

\* the "if self.op_..._var.get():" that guards each block
OpEnabled(kind, c) ==
    CASE kind = "replace" -> c.op_replace_var
      [] kind = "trim"    -> c.op_trim_var
      [] kind = "copy"    -> c.op_copy_var
      [] kind = "case"    -> c.op_case_var
      [] kind = "add"     -> c.op_add_var
      [] kind = "remove"  -> c.op_remove_var
      [] kind = "split"   -> c.op_split_var

RunOp(kind, tags, c) ==
    CASE kind = "replace" -> OpReplace(tags, c)
      [] kind = "trim"    -> OpTrim(tags, c)
      [] kind = "copy"    -> OpCopy(tags, c)
      [] kind = "case"    -> OpCase(tags, c)
      [] kind = "add"     -> OpAdd(tags, c)
      [] kind = "remove"  -> OpRemove(tags, c)
      [] kind = "split"   -> OpSplit(tags, c)

\* the blocks of apply_operations_to_file, top to bottom
PipelineOrder == <<"replace", "trim", "copy", "case", "add", "remove", "split">>

\* blocks k .. of `order` run on tags: the dict they leave, whether an
\* exception ended the run, and the blocks that ran to their end, each with
\* the dict it found and the dict it left
RECURSIVE RunBlocks(_, _, _, _)
RunBlocks(order, k, tags, c) ==
    IF k > Len(order) THEN [raised |-> FALSE, tags |-> tags, trace |-> << >>]
    ELSE IF ~OpEnabled(order[k], c) THEN RunBlocks(order, k + 1, tags, c)
    ELSE LET r == RunOp(order[k], tags, c)
         IN  IF r.raised THEN [raised |-> TRUE, tags |-> r.tags, trace |-> << >>]
             ELSE LET rest == RunBlocks(order, k + 1, r.tags, c)
                  IN  [raised |-> rest.raised, tags |-> rest.tags,
                       trace  |-> <<[kind |-> order[k], before |-> tags, after |-> r.tags]>>
                                  \o rest.trace]

\* apply_operations_to_file with the Copy block moved to the top
apply_operations_to_file_copyFirst(tags, c) ==
    RunBlocks(<<"copy", "replace", "trim", "case", "add", "remove", "split">>, 1, tags, c)

\* BulkTagUtility.apply_operations_to_file on the dict audio_file.tags
apply_operations_to_file(tags, c) == RunBlocks(PipelineOrder, 1, tags, c)

\* ------------------------------------------------------------------------
\* Objects.  An AudioFile is [tags, original_tags, selected]; tags and
\* original_tags are addresses of dict objects in heap, so that two names
\* for one dict see each other's writes.  A files_snapshot is a sequence of
\* <<index of the AudioFile in audio_files, address of the snapshot dict>>.
\* ------------------------------------------------------------------------

\* dict.copy(): a new dict object with the same items
dict_copy(hp, a) == [heap |-> Append(hp, hp[a]), addr |-> Len(hp) + 1]

\* the writes of apply_operations_to_file going to a private copy
WriteTags_toPrivateCopy(hp, a, d) == hp

\* audio_file.tags[field] = value: the writes of apply_operations_to_file go
\* to the dict object the AudioFile holds
WriteTags(hp, a, d) == [hp EXCEPT ![a] = d]

\* a create_snapshot that hands out the live dict instead of a copy
create_snapshot_live(af, hp, i) == [heap |-> hp, addr |-> af[i].tags]

\* AudioFile.create_snapshot
create_snapshot(af, hp, i) == dict_copy(hp, af[i].tags)

\* a restore that leaves the file's tags as they are
restore_snapshot_skipped(af, hp, i, snapshot) == [audio_files |-> af, heap |-> hp]

\* a restore that binds the snapshot itself to the file
restore_snapshot_aliased(af, hp, i, snapshot) ==
    [audio_files |-> [af EXCEPT ![i].tags = snapshot], heap |-> hp]

\* AudioFile.restore_snapshot
restore_snapshot(af, hp, i, snapshot) ==
    LET c == dict_copy(hp, snapshot)
    IN  [audio_files |-> [af EXCEPT ![i].tags = c.addr], heap |-> c.heap]

\* AudioFile.save_tags; ok: the store took the write (mutagen opened the
\* file and audio.save() did not raise)
save_tags(af, hp, i, ok) ==
    IF ok
    THEN LET c == dict_copy(hp, af[i].tags)
         IN  [audio_files |-> [af EXCEPT ![i].original_tags = c.addr],
              heap |-> c.heap, ret |-> TRUE]
    ELSE [audio_files |-> af, heap |-> hp, ret |-> FALSE]

\* BulkTagUtility.get_selected_files: the selected AudioFiles, in list order
get_selected_files(af) ==
    LET S == {i \in 1 .. Len(af) : af[i].selected}
    IN  [k \in 1 .. Cardinality(S) |->
            CHOOSE i \in S : Cardinality({j \in S : j < i}) = k - 1]

\* the addresses of s, each once, in the order s first names them
RECURSIVE Distinct(_)
Distinct(s) ==
    IF s = << >> THEN << >>
    ELSE LET d == Distinct(SubSeq(s, 1, Len(s) - 1))
             x == s[Len(s)]
         IN  IF \E i \in 1 .. Len(d) : d[i] = x THEN d ELSE Append(d, x)

\* the addresses audio_files and history hold, in list order
Roots(af, h) ==
    LET fileRoots[i \in 0 .. Len(af)] ==
            IF i = 0 THEN << >>
            ELSE fileRoots[i - 1] \o <<af[i].tags, af[i].original_tags>>
        histRoots[i \in 0 .. Len(h)] ==
            IF i = 0 THEN << >>
            ELSE histRoots[i - 1]
                    \o [j \in 1 .. Len(h[i].snapshots) |-> h[i].snapshots[j][2]]
    IN  fileRoots[Len(af)] \o histRoots[Len(h)]

\* the objects no name reaches are gone, and the addresses of the others are
\* renumbered in the order audio_files and history reach them (an address
\* has no meaning beyond which names share it)
Compact(af, h, hp) ==
    LET live    == Distinct(Roots(af, h))
        rank(a) == CHOOSE n \in 1 .. Len(live) : live[n] = a
    IN  [audio_files |->
            [i \in 1 .. Len(af) |->
                [af[i] EXCEPT !.tags = rank(af[i].tags),
                              !.original_tags = rank(af[i].original_tags)]],
         history |->
            [i \in 1 .. Len(h) |->
                [h[i] EXCEPT !.snapshots =
                    [j \in 1 .. Len(h[i].snapshots) |->
                        <<h[i].snapshots[j][1], rank(h[i].snapshots[j][2])>>]]],
         heap |-> [n \in 1 .. Len(live) |-> hp[live[n]]]]

\* what the names hold: the records of the files, the history with every
\* snapshot address replaced by the dict behind it
FilesView(af, hp) ==
    [i \in 1 .. Len(af) |->
        [tags |-> hp[af[i].tags], original_tags |-> hp[af[i].original_tags],
         selected |-> af[i].selected]]

HistoryView(h, hp) ==
    [i \in 1 .. Len(h) |->
        [h[i] EXCEPT !.snapshots =
            [j \in 1 .. Len(h[i].snapshots) |->
                <<h[i].snapshots[j][1], hp[h[i].snapshots[j][2]]>>]]]

\* ------------------------------------------------------------------------
\* Handlers of BulkTagUtility
\* ------------------------------------------------------------------------

\* the handler leaves these objects behind
Commit(af, h, idx, hp) ==
    LET c == Compact(af, h, hp)
    IN  /\ audio_files' = c.audio_files
        /\ history' = c.history
        /\ heap' = c.heap
        /\ current_index' = idx

Watch(name, sv, runs, out) ==
    /\ handler' = name
    /\ saves' = sv
    /\ pipeRuns' = runs
    /\ outcome' = out

\* one apply_operations_to_file call, as the handlers' observers see it
PipeRun(i, input, r) ==
    [file |-> i, input |-> input, output |-> r.tags, raised |-> r.raised]

\* snapshots = [(f, f.create_snapshot()) for f in selected], from the k-th on
RECURSIVE Snapshots(_, _, _, _)
Snapshots(sel, k, af, hp) ==
    IF k > Len(sel) THEN [heap |-> hp, snapshots |-> << >>]
    ELSE LET c    == create_snapshot(af, hp, sel[k])
             rest == Snapshots(sel, k + 1, af, c.heap)
         IN  [heap |-> rest.heap,
              snapshots |-> << <<sel[k], c.addr>> >> \o rest.snapshots]

\* the "Apply and save" loop of apply_changes from the k-th selected file
\* on; oks[i]: whether the store takes the write of file i
RECURSIVE BatchLoop(_, _, _, _, _, _)

\* one turn of the loop for file i, r being what apply_operations_to_file
\* made of its record: the record is written in place, and unless an
\* exception left the pipeline the file is saved and the loop goes on
BatchItem(sel, k, af, hp, c, oks, i, r) ==
    LET a   == af[i].tags
        hp1 == WriteTags(hp, a, r.tags)
    IN  IF r.raised
        THEN [audio_files |-> af, heap |-> hp1, raised |-> TRUE,
              saves |-> << >>, runs |-> <<PipeRun(i, hp[a], r)>>,
              success_count |-> 0]
        ELSE LET sv   == save_tags(af, hp1, i, oks[i])
                 rest == BatchLoop(sel, k + 1, sv.audio_files, sv.heap, c, oks)
             IN  [audio_files |-> rest.audio_files, heap |-> rest.heap,
                  raised |-> rest.raised,
                  saves |-> <<[file |-> i, ok |-> sv.ret, tags |-> hp1[a]]>>
                            \o rest.saves,
                  runs  |-> <<PipeRun(i, hp[a], r)>> \o rest.runs,
                  success_count |-> (IF sv.ret THEN 1 ELSE 0) + rest.success_count]

BatchLoop(sel, k, af, hp, c, oks) ==
    IF k > Len(sel)
    THEN [audio_files |-> af, heap |-> hp, raised |-> FALSE,
          saves |-> << >>, runs |-> << >>, success_count |-> 0]
    ELSE BatchItem(sel, k, af, hp, c, oks, sel[k],
                   apply_operations_to_file(hp[af[sel[k]].tags], c))

\* a batch that records its entry only when some save succeeded
RecordBatch_onlyIfSaved(h, idx, maxh, success_count, timestamp, snapshots) ==
    IF success_count > 0
    THEN record_action(h, idx, maxh, HistoryEntry(success_count, timestamp, snapshots))
    ELSE [history |-> h, current_index |-> idx]

\* "Record for undo": the record_action call that ends apply_changes
RecordBatch(h, idx, maxh, success_count, timestamp, snapshots) ==
    record_action(h, idx, maxh, HistoryEntry(success_count, timestamp, snapshots))

\* the end of apply_changes, run being what the loop did: the entry is
\* recorded and the report shown, unless an exception ended the handler
BatchEnd(snapshots, run, count) ==
    LET rec == RecordBatch(history, current_index, max_history,
                           run.success_count, now, snapshots)
    IN  /\ IF run.raised
           THEN /\ Commit(run.audio_files, history, current_index, run.heap)
                /\ now' = now
           ELSE /\ Commit(run.audio_files, rec.history, rec.current_index, run.heap)
                /\ now' = now + 1
        /\ Watch("apply_changes", run.saves, run.runs,
                 [confirmed |-> TRUE, completed |-> ~run.raised,
                  success_count |-> run.success_count, count |-> count])

\* apply_changes once confirmed, snap being the snapshots taken
BatchRun(selected, snap, oks) ==
    BatchEnd(snap.snapshots,
             BatchLoop(selected, 1, audio_files, snap.heap, cfg, oks),
             Len(selected))

\* BulkTagUtility.apply_changes; confirm: the answer to askyesno
apply_changes(confirm, oks) ==
    /\ now < MaxBatches
    /\ IF get_selected_files(audio_files) = << >> \/ ~confirm
       THEN /\ UNCHANGED <<audio_files, heap, history, current_index, now>>
            /\ Watch("apply_changes", << >>, << >>,
                     [confirmed |-> FALSE, completed |-> FALSE,
                      success_count |-> 0,
                      count |-> Len(get_selected_files(audio_files))])
       ELSE BatchRun(get_selected_files(audio_files),
                     Snapshots(get_selected_files(audio_files), 1, audio_files, heap),
                     oks)
    /\ UNCHANGED <<max_history, cfg, undoObs, toolVars>>

\* preview_changes without its last assignment
PreviewRestore_forgotten(af, i, original_tags) == af

\* test_file.tags = original_tags, the last assignment of preview_changes
PreviewRestore(af, i, original_tags) == [af EXCEPT ![i].tags = original_tags]

\* BulkTagUtility.preview_changes
preview_changes ==
    /\ LET selected == get_selected_files(audio_files)
       IN  IF selected = << >>
           THEN /\ UNCHANGED <<audio_files, heap, history, current_index>>
                /\ Watch("preview_changes", << >>, << >>, None)
           ELSE LET i   == selected[1]
                    a   == audio_files[i].tags
                    cp  == dict_copy(heap, a)
                    r   == apply_operations_to_file(heap[a], cfg)
                    hp1 == WriteTags(cp.heap, a, r.tags)
                IN  /\ IF r.raised
                       THEN Commit(audio_files, history, current_index, hp1)
                       ELSE Commit(PreviewRestore(audio_files, i, cp.addr),
                                   history, current_index, hp1)
                    /\ Watch("preview_changes", << >>, <<PipeRun(i, heap[a], r)>>, None)
    /\ UNCHANGED <<max_history, now, cfg, undoObs, toolVars>>

\* the "Restore snapshots" loop of undo_last_action from the k-th pair on
RECURSIVE RestoreLoop(_, _, _, _, _)
RestoreLoop(snapshots, k, af, hp, oks) ==
    IF k > Len(snapshots) THEN [audio_files |-> af, heap |-> hp, saves |-> << >>]
    ELSE LET i    == snapshots[k][1]
             rs   == restore_snapshot(af, hp, i, snapshots[k][2])
             sv   == save_tags(rs.audio_files, rs.heap, i, oks[i])
             rest == RestoreLoop(snapshots, k + 1, sv.audio_files, sv.heap, oks)
         IN  [audio_files |-> rest.audio_files, heap |-> rest.heap,
              saves |-> <<[file |-> i, ok |-> sv.ret,
                           tags |-> rs.heap[rs.audio_files[i].tags]]>> \o rest.saves]

\* BulkTagUtility.undo_last_action
undo_last_action(oks) ==
    /\ LET u == undo(history, current_index)
       IN  IF u.ret = None
           THEN /\ UNCHANGED <<audio_files, heap, history, current_index>>
                /\ Watch("undo_last_action", << >>, << >>, None)
           ELSE LET rs == RestoreLoop(u.ret.snapshots, 1, audio_files, heap, oks)
                IN  /\ Commit(rs.audio_files, history, u.current_index, rs.heap)
                    /\ Watch("undo_last_action", rs.saves, << >>, None)
    /\ UNCHANGED <<max_history, now, cfg, undoObs, toolVars>>

\* a redo_last_action that writes the snapshots of the entry it steps onto
\* back to the files and saves them
redo_last_action_restoring ==
    /\ LET r == redo(history, current_index)
       IN  IF r.ret = None
           THEN /\ UNCHANGED <<audio_files, heap, history, current_index>>
                /\ Watch("redo_last_action", << >>, << >>, None)
           ELSE LET rs == RestoreLoop(r.ret.snapshots, 1, audio_files, heap,
                                      [i \in 1 .. Len(audio_files) |-> TRUE])
                IN  /\ Commit(rs.audio_files, history, r.current_index, rs.heap)
                    /\ Watch("redo_last_action", rs.saves, << >>, None)
    /\ UNCHANGED <<max_history, now, cfg, undoObs, toolVars>>

\* BulkTagUtility.redo_last_action
redo_last_action ==
    /\ current_index' = redo(history, current_index).current_index
    /\ Watch("redo_last_action", << >>, << >>, None)
    /\ UNCHANGED <<max_history, history, now, audio_files, heap, cfg, undoObs, toolVars>>

\* BulkTagUtility.on_file_select: a click toggles the file's check mark
on_file_select(i) ==
    /\ audio_files' = [audio_files EXCEPT ![i].selected = ~audio_files[i].selected]
    /\ Watch("idle", << >>, << >>, None)
    /\ UNCHANGED <<undoVars, heap, cfg, undoObs, toolVars>>

\* ------------------------------------------------------------------------
\* The operation widgets
\* ------------------------------------------------------------------------
Kinds == {"replace", "trim", "copy", "case", "add", "remove", "split"}

\* the check boxes: exactly the kinds of `on` are ticked
Flags(on) ==
    [op_replace_var |-> "replace" \in on, op_trim_var   |-> "trim" \in on,
     op_copy_var    |-> "copy" \in on,    op_case_var   |-> "case" \in on,
     op_add_var     |-> "add" \in on,     op_remove_var |-> "remove" \in on,
     op_split_var   |-> "split" \in on]

\* the parameter widgets as setup_operations leaves them
DefaultParams ==
    [replace_field |-> "title", replace_find |-> << >>, replace_with |-> << >>,
     replace_case_sensitive |-> FALSE, replace_use_regex |-> FALSE,
     trim_field |-> ALL_FIELDS, trim_leading |-> TRUE, trim_trailing |-> TRUE,
     copy_from |-> "artist", copy_to |-> "comment", copy_append |-> FALSE,
     case_field |-> "title", case_mode |-> "title",
     add_field |-> "title", add_prefix |-> << >>, add_suffix |-> << >>,
     remove_field |-> "title", remove_text |-> << >>,
     split_source |-> "title", split_separator |-> <<" ", "-", " ">>,
     split_left_field |-> "artist", split_right_field |-> "title"]

\* the widgets after setup_operations: nothing ticked
DefaultCfg == Flags({}) @@ DefaultParams

\* the kinds a preset's 'operations' object has an entry for
PresetKinds(preset) ==
    {k \in Kinds :
        CASE k = "replace" -> "replace_field" \in DOMAIN preset
          [] k = "trim"    -> "trim_field" \in DOMAIN preset
          [] k = "copy"    -> "copy_from" \in DOMAIN preset
          [] k = "case"    -> "case_field" \in DOMAIN preset
          [] k = "add"     -> "add_field" \in DOMAIN preset
          [] k = "remove"  -> "remove_field" \in DOMAIN preset
          [] k = "split"   -> "split_source" \in DOMAIN preset}

\* BulkTagUtility.apply_preset: every box is cleared, then the kinds of the
\* preset are ticked and their widgets set; the other widgets keep their text
apply_preset_to(c, preset) == Flags(PresetKinds(preset)) @@ preset @@ c

\* a field name that is no key of any record (a preset file can name one)
NoSuchField == "grouping"

\* parameter values for each kind of operation
ReplaceParams ==
    [replace_field : {"title", NoSuchField},
     replace_find : {<< >>, <<"x">>, <<"(">>},
     replace_with : {<< >>, <<"y", " ">>, <<"\\">>},
     replace_case_sensitive : BOOLEAN, replace_use_regex : BOOLEAN]

TrimParams ==
    [trim_field : {"title", ALL_FIELDS, NoSuchField},
     trim_leading : BOOLEAN, trim_trailing : BOOLEAN]

CopyParams ==
    [copy_from : {"title", NoSuchField},
     copy_to : {"title", "artist", NoSuchField}, copy_append : BOOLEAN]

CaseParams ==
    [case_field : {"title", NoSuchField},
     case_mode : {"title", "upper", "lower", "sentence"}]

AddParams ==
    [add_field : {"title", NoSuchField},
     add_prefix : {<< >>, <<"X">>}, add_suffix : {<< >>, <<"-">>}]

RemoveParams ==
    [remove_field : {"title", NoSuchField},
     remove_text : {<< >>, <<"x">>, <<" ">>}]

SplitParams ==
    [split_source : {"title", NoSuchField},
     split_separator : {<< >>, <<"-">>, <<" ", "-", " ">>},
     split_left_field : {"artist", "title", NoSuchField},
     split_right_field : {"title", "comment"}]

\* a chain in which every operation changes what the next one reads
ChainParams ==
    [replace_field |-> "title", replace_find |-> <<"x">>, replace_with |-> <<"y", " ">>,
     replace_case_sensitive |-> TRUE, replace_use_regex |-> FALSE,
     trim_field |-> ALL_FIELDS, trim_leading |-> TRUE, trim_trailing |-> TRUE,
     copy_from |-> "title", copy_to |-> "artist", copy_append |-> FALSE,
     case_field |-> "title", case_mode |-> "upper",
     add_field |-> "title", add_prefix |-> <<"X">>, add_suffix |-> <<"-">>,
     remove_field |-> "title", remove_text |-> <<"Y">>,
     split_source |-> "title", split_separator |-> <<"-">>,
     split_left_field |-> "comment", split_right_field |-> "title"]

OneKindParams ==
    ReplaceParams \cup TrimParams \cup CopyParams \cup CaseParams
        \cup AddParams \cup RemoveParams \cup SplitParams

\* the widget states the pipeline is run under: the chain with every set of
\* boxes ticked, and every parameter choice of one kind with that kind's box
\* ticked or with no box ticked
PipelineConfigs ==
    {Flags(on) @@ ChainParams : on \in SUBSET Kinds}
        \cup {apply_preset_to(DefaultCfg, p) : p \in OneKindParams}
        \cup {Flags({}) @@ p @@ DefaultParams : p \in OneKindParams}

\* the presets of the application runs: each has a 'replace' and a 'copy'
\* entry, so the widgets are what the preset applied last left
AppPresets ==
    { [replace_field |-> "title", replace_find |-> <<"x">>, replace_with |-> <<"y">>,
       replace_case_sensitive |-> FALSE, replace_use_regex |-> FALSE,
       copy_from |-> "title", copy_to |-> "artist", copy_append |-> TRUE],
      [replace_field |-> "title", replace_find |-> <<"x">>, replace_with |-> <<"\\">>,
       replace_case_sensitive |-> FALSE, replace_use_regex |-> FALSE,
       copy_from |-> "title", copy_to |-> "artist", copy_append |-> TRUE] }

\* the records of the files
Rec(title, artist, comment) ==
    [f \in TAG_FIELDS |->
        CASE f = "title" -> title [] f = "artist" -> artist [] f = "comment" -> comment]

Titles ==
    { << >>,
      <<" ", "x", "X", " ", "-", " ", "y", " ">>,
      <<"x", "-", "y", "-", "x">>,
      <<"X", "x", " ", "y", "Y">>,
      <<"x", " ", "-", " ", "y">> }

Artists == { << >>, <<"Y", " ">> }

\* a file mutagen could read has every field of TAG_FIELDS, one it could not
\* read keeps the empty dict of __init__
PipelineRecords ==
    {EmptyDict} \cup {Rec(t, a, <<"x">>) : t \in Titles, a \in Artists}

RecA == Rec(<<" ", "x", "X", " ", "-", " ", "y">>, << >>, << >>)
RecB == Rec(<<"x">>, <<"Y", " ", "y">>, <<"x">>)

\* AudioFile.__init__ and load_tags for a file whose tags load as rec: the
\* AudioFile at addresses a (tags) and a + 1 (original_tags)
NewAudioFile(a) == [tags |-> a, original_tags |-> a + 1, selected |-> TRUE]

\* BulkTagUtility.apply_preset
apply_preset(preset) ==
    /\ cfg' = apply_preset_to(cfg, preset)
    /\ Watch("idle", << >>, << >>, None)
    /\ UNCHANGED <<undoVars, audio_files, heap, undoObs, toolVars>>

\* ------------------------------------------------------------------------
\* Spec: the application with two files loaded
\* ------------------------------------------------------------------------
DefaultMaxHistory == 50

NoUndoObs ==
    /\ umOp = "init"
    /\ umPre = [history |-> << >>, current_index |-> -1]
    /\ umRet = None
    /\ log = << >>
    /\ streak = 0

Init ==
    /\ max_history = DefaultMaxHistory
    /\ history = << >>
    /\ current_index = -1
    /\ now = 0
    /\ NoUndoObs
    /\ audio_files = <<NewAudioFile(1), NewAudioFile(3)>>
    /\ \E r1 \in {RecA, EmptyDict} : heap = <<r1, r1, RecB, RecB>>
    /\ cfg = DefaultCfg
    /\ handler = "idle"
    /\ saves = << >>
    /\ pipeRuns = << >>
    /\ outcome = None
    /\ NoToolCall

Next ==
    \/ \E preset \in AppPresets : apply_preset(preset)
    \/ \E i \in 1 .. Len(audio_files) : on_file_select(i)
    \/ preview_changes
    \/ \E confirm \in BOOLEAN, oks \in [1 .. Len(audio_files) -> BOOLEAN] :
          apply_changes(confirm, oks)
    \/ \E oks \in [1 .. Len(audio_files) -> BOOLEAN] : undo_last_action(oks)
    \/ redo_last_action

Spec == Init /\ [][Next]_vars

\* ------------------------------------------------------------------------
\* SpecPipeline: apply_operations_to_file called on one file, for every
\* record and widget state of the bounded sets
\* ------------------------------------------------------------------------
InitPipeline ==
    /\ max_history = DefaultMaxHistory
    /\ history = << >>
    /\ current_index = -1
    /\ now = 0
    /\ NoUndoObs
    /\ audio_files = <<NewAudioFile(1)>>
    /\ \E r \in PipelineRecords : heap = <<r, r>>
    /\ cfg \in PipelineConfigs
    /\ handler = "idle"
    /\ saves = << >>
    /\ pipeRuns = << >>
    /\ outcome = None
    /\ NoToolCall

\* self.apply_operations_to_file(audio_files[0])
PipelineCall ==
    /\ Len(pipeRuns) < MaxPipelineRuns
    /\ LET a == audio_files[1].tags
           r == apply_operations_to_file(heap[a], cfg)
       IN  /\ heap' = WriteTags(heap, a, r.tags)
           /\ pipeRuns' = Append(pipeRuns, [trace |-> r.trace] @@ PipeRun(1, heap[a], r))
    /\ handler' = "apply_operations_to_file"
    /\ UNCHANGED <<undoVars, undoObs, audio_files, cfg, saves, outcome, toolVars>>

NextPipeline == PipelineCall

SpecPipeline == InitPipeline /\ [][NextPipeline]_vars

\* ------------------------------------------------------------------------
\* SpecUndo: an UndoManager driven by arbitrary calls
\* ------------------------------------------------------------------------
Observe(op, ret) ==
    /\ umOp'  = op
    /\ umPre' = [history |-> history, current_index |-> current_index]
    /\ umRet' = ret

InitUndo ==
    /\ max_history \in 1 .. MaxMaxHistory
    /\ history = << >>
    /\ current_index = -1
    /\ now = 0
    /\ umOp = "init"
    /\ umPre = [history |-> << >>, current_index |-> -1]
    /\ umRet = None
    /\ log = << >>
    /\ streak = 0
    /\ audio_files = << >>
    /\ heap = << >>
    /\ cfg = DefaultCfg
    /\ handler = "idle"
    /\ saves = << >>
    /\ pipeRuns = << >>
    /\ outcome = None
    /\ NoToolCall

RecordCall(action_name) ==
    /\ now < MaxRecords
    /\ LET entry == HistoryEntry(action_name, now, << >>)
           after == record_action(history, current_index, max_history, entry)
       IN  /\ history' = after.history
           /\ current_index' = after.current_index
           /\ log' = Append(log, entry)
    /\ now' = now + 1
    /\ streak' = streak + 1
    /\ Observe("record_action", None)
    /\ UNCHANGED <<max_history, appVars, appObs, toolVars>>

UndoCall ==
    /\ LET r == undo(history, current_index)
       IN  /\ current_index' = r.current_index
           /\ Observe("undo", r.ret)
    /\ streak' = 0
    /\ UNCHANGED <<max_history, history, now, log, appVars, appObs, toolVars>>

RedoCall ==
    /\ LET r == redo(history, current_index)
       IN  /\ current_index' = r.current_index
           /\ Observe("redo", r.ret)
    /\ UNCHANGED <<max_history, history, now, log, streak, appVars, appObs, toolVars>>

NextUndo ==
    \/ \E action_name \in ActionNames : RecordCall(action_name)
    \/ UndoCall
    \/ RedoCall

SpecUndo == InitUndo /\ [][NextUndo]_vars

\* ------------------------------------------------------------------------
\* tools/quick_tag_actions.py: the comment field as "key - energy - tags".
\* Python values that may be None, an int or a str carry their type.
\* ------------------------------------------------------------------------
PyStr(s) == [str |-> s]
PyInt(n) == [int |-> n]

\* bool(v)
Truthy(v) ==
    CASE "none" \in DOMAIN v -> FALSE
      [] "int" \in DOMAIN v  -> v.int # 0
      [] "str" \in DOMAIN v  -> v.str # << >>

\* str(n) of an int n >= 0
RECURSIVE Numeral(_)
Numeral(n) ==
    LET digit == <<"0", "1", "2", "3", "4", "5", "6", "7", "8", "9">>
    IN  IF n < 10 THEN <<digit[n + 1]>>
        ELSE Numeral(n \div 10) \o <<digit[(n % 10) + 1]>>

\* "{v}" in an f-string
Format(v) ==
    CASE "none" \in DOMAIN v -> <<"N", "o", "n", "e">>
      [] "int" \in DOMAIN v  -> Numeral(v.int)
      [] "str" \in DOMAIN v  -> v.str

\* sep in s
str_contains(s, sep) == \E i \in 1 .. Len(s) : MatchAt(s, i, sep, FALSE)

\* str.split(sep) for a non-empty sep: cut at every occurrence, leftmost first
RECURSIVE str_split(_, _)
str_split(s, sep) ==
    LET parts == str_split1(s, sep)
    IN  IF Len(parts) = 1 THEN parts
        ELSE <<parts[1]>> \o str_split(parts[2], sep)

\* sep.join(list)
RECURSIVE str_join(_, _)
str_join(sep, list) ==
    IF list = << >> THEN << >>
    ELSE IF Len(list) = 1 THEN list[1]
    ELSE list[1] \o sep \o str_join(sep, Tail(list))

\* [t.strip() for t in text.split(',')]
SplitTags(text) ==
    LET pieces == str_split(text, <<",">>)
    IN  [n \in 1 .. Len(pieces) |-> str_strip(pieces[n])]

MIK_SEP == <<" ", "-", " ">>

\* QuickActions.get_tag_list(audio, "COMMENT"), c being audio's COMM::eng
\* text (None when audio has no such frame)
get_tag_list(c) ==
    IF c = None THEN [key |-> None, energy |-> None, tags |-> << >>]
    ELSE IF str_contains(c.str, MIK_SEP) /\ Len(str_split(c.str, MIK_SEP)) >= 3
         THEN [key    |-> PyStr(str_split(c.str, MIK_SEP)[1]),
               energy |-> PyStr(str_split(c.str, MIK_SEP)[2]),
               tags   |-> SplitTags(str_split(c.str, MIK_SEP)[3])]
         ELSE [key |-> None, energy |-> None, tags |-> SplitTags(c.str)]

\* QuickActions.set_tag_list(audio, "COMMENT", tags, key, energy): the text
\* of the COMM frame it stores
set_tag_list(tags, key, energy) ==
    IF Truthy(key) /\ Truthy(energy)
    THEN IF tags # << >>
         THEN PyStr(Format(key) \o MIK_SEP \o Format(energy) \o MIK_SEP
                        \o str_join(<<",", " ">>, tags))
         ELSE PyStr(Format(key) \o MIK_SEP \o Format(energy))
    ELSE PyStr(str_join(<<",", " ">>, tags))

\* the comments files come with
RawComments ==
    {None} \cup {PyStr(t) : t \in
        { << >>,
          <<"x">>,
          <<"x", ",", " ", "y">>,
          <<" ", "x", " ", ",", "y", " ">>,
          <<"5", "x", " ", "-", " ", "5", " ", "-", " ", "x", ",", " ", "y">>,
          <<"5", "x", " ", "-", " ", "5">>,
          <<"x", " ", "-", " ", "y">>,
          <<"x", " ", "-", " ", "y", " ", "-", " ", "x">>,
          <<"5", "x", " ", "-", " ", "5", " ", "-", " ", "x", " ", "-", " ", "y">>,
          <<"5", "x", " ", "-", " ", "5", " ", "-", " ">>,
          <<"5", "x", " ", "-", " ", "1", "0", " ", "-", " ", "x">>,
          <<" ", "-", " ", "5", " ", "-", " ", "x">>,
          <<"x", ",", ",", " ", "x">> }}

\* arguments set_tag_list is called with
CodecKeys ==
    {None} \cup {PyStr(t) : t \in { << >>, <<"5", "x">>, <<"x", " ", "-", " ", "y">> }}

CodecEnergies == {None, PyInt(0), PyInt(5), PyInt(10), PyStr(<<"5">>)}

CodecTagLists ==
    { << >>,
      <<<<"x">>>>,
      <<<<"x">>, <<"y">>>>,
      <<<<" ", "x">>>>,
      <<<< >>>>,
      <<<<"x">>, <<"-", " ", "y">>>>,
      <<<<"x", ",", "y">>>>,
      <<<<"x", " ", "-", " ", "y">>>> }

InitCodec ==
    /\ max_history = DefaultMaxHistory
    /\ history = << >>
    /\ current_index = -1
    /\ now = 0
    /\ NoUndoObs
    /\ audio_files = << >>
    /\ heap = << >>
    /\ cfg = DefaultCfg
    /\ handler = "idle"
    /\ saves = << >>
    /\ pipeRuns = << >>
    /\ outcome = None
    /\ comm_eng \in RawComments
    /\ qtArgs = None
    /\ qtRet = None
    /\ NoExtraCall

\* self.set_tag_list(audio, "COMMENT", tags, key, energy)
SetTagListCall(tags, key, energy) ==
    /\ comm_eng' = set_tag_list(tags, key, energy)
    /\ qtArgs' = [tags |-> tags, key |-> key, energy |-> energy]
    /\ qtRet' = None
    /\ UNCHANGED <<undoVars, undoObs, appVars, appObs, extraVars>>

\* key, energy, tags = self.get_tag_list(audio, "COMMENT")
GetTagListCall ==
    /\ qtRet' = get_tag_list(comm_eng)
    /\ UNCHANGED <<comm_eng, qtArgs, undoVars, undoObs, appVars, appObs, extraVars>>

NextCodec ==
    \/ \E tags \in CodecTagLists, key \in CodecKeys, energy \in CodecEnergies :
          SetTagListCall(tags, key, energy)
    \/ GetTagListCall

SpecCodec == InitCodec /\ [][NextCodec]_vars

\* ------------------------------------------------------------------------
\* tools/quick_tag_actions.py: apply_actions on one MP3 file that has no
\* TCON and no TPUB frame, so that the 'move' actions, which read GENRE and
\* LABEL, find nothing to move
\* ------------------------------------------------------------------------

\* the 'replace' entries of self.actions, in list order (all on COMMENT; no
\* replacement text equals a find text, as in the source's list)
Replacements ==
    << [find |-> <<"x">>, replace |-> <<"Y", "y">>],
       [find |-> <<"y">>, replace |-> <<"X", "x">>] >>

\* the 'replace' branch for one action: the new tag list and whether a tag
\* matched (tag.lower() == find.lower())
ReplaceInTagList(tags, find, replace) ==
    [new_tags |-> [i \in 1 .. Len(tags) |->
                      IF str_lower(tags[i]) = str_lower(find) THEN replace ELSE tags[i]],
     matched  |-> \E i \in 1 .. Len(tags) : str_lower(tags[i]) = str_lower(find)]

\* "for action_type, var, *params in self.actions" from the k-th replace
\* action on, ticked being the actions whose box is ticked; file_changed is
\* one flag for the whole file
RECURSIVE ReplaceActions(_, _, _, _)
ReplaceActions(k, ticked, c, file_changed) ==
    IF k > Len(Replacements) THEN [comm |-> c, file_changed |-> file_changed]
    ELSE IF k \notin ticked THEN ReplaceActions(k + 1, ticked, c, file_changed)
    ELSE LET got == get_tag_list(c)
             r   == ReplaceInTagList(got.tags, Replacements[k].find, Replacements[k].replace)
             fc  == file_changed \/ r.matched
         IN  ReplaceActions(k + 1, ticked,
                            IF fc THEN set_tag_list(r.new_tags, got.key, got.energy) ELSE c,
                            fc)

\* [t.strip() for t in tags if t.strip()]
RECURSIVE TrimSpaces(_)
TrimSpaces(tags) ==
    IF tags = << >> THEN << >>
    ELSE (IF str_strip(Head(tags)) # << >> THEN <<str_strip(Head(tags))>> ELSE << >>)
            \o TrimSpaces(Tail(tags))

\* the remove_dupes loop: the first of the tags equal up to case is kept
RECURSIVE RemoveDupes(_, _)
RemoveDupes(tags, seen) ==
    IF tags = << >> THEN << >>
    ELSE IF str_lower(Head(tags)) \in seen THEN RemoveDupes(Tail(tags), seen)
    ELSE <<Head(tags)>> \o RemoveDupes(Tail(tags), seen \cup {str_lower(Head(tags))})

\* "Apply clean operations" for the COMMENT field
CleanComment(c, file_changed, trim_spaces, remove_dupes) ==
    IF ~(trim_spaces \/ remove_dupes) THEN [comm |-> c, file_changed |-> file_changed]
    ELSE LET got  == get_tag_list(c)
             t1   == IF trim_spaces THEN TrimSpaces(got.tags) ELSE got.tags
             tags == IF remove_dupes THEN RemoveDupes(t1, {}) ELSE t1
         IN  IF tags # got.tags
             THEN [comm |-> set_tag_list(tags, got.key, got.energy), file_changed |-> TRUE]
             ELSE [comm |-> c, file_changed |-> file_changed]

\* the comments of the files the actions are applied to
ActionComments ==
    RawComments \cup {PyStr(t) : t \in
        { <<"5", "x", " ", "-", " ", "5", " ", "-", " ", "X", ",", "y", ",", " ", "y", "x">>,
          <<"5", "x", " ", "-", " ", "5", " ", "-", " ", "y", "x">>,
          <<"Y", ",", " ", "y", "x">> }}

InitActions ==
    /\ max_history = DefaultMaxHistory
    /\ history = << >>
    /\ current_index = -1
    /\ now = 0
    /\ NoUndoObs
    /\ audio_files = << >>
    /\ heap = << >>
    /\ cfg = DefaultCfg
    /\ handler = "idle"
    /\ saves = << >>
    /\ pipeRuns = << >>
    /\ outcome = None
    /\ comm_eng \in ActionComments
    /\ qtArgs = None
    /\ qtRet = None
    /\ qaRun = None
    /\ mgFile = None /\ mgRun = None
    /\ NoEditor

\* QuickActions.apply_actions with one file in self.files; confirm: the
\* answer to askyesno
apply_actions(ticked, trim_spaces, remove_dupes, confirm) ==
    /\ IF (ticked = {} /\ ~(trim_spaces \/ remove_dupes)) \/ ~confirm
       THEN /\ comm_eng' = comm_eng
            /\ qaRun' = [ticked |-> ticked, trim_spaces |-> trim_spaces,
                         remove_dupes |-> remove_dupes, confirmed |-> FALSE,
                         before |-> comm_eng, saved |-> FALSE]
       ELSE LET r == ReplaceActions(1, ticked, comm_eng, FALSE)
                c == CleanComment(r.comm, r.file_changed, trim_spaces, remove_dupes)
            IN  \* audio.save() only "if file_changed"
                /\ comm_eng' = IF c.file_changed THEN c.comm ELSE comm_eng
                /\ qaRun' = [ticked |-> ticked, trim_spaces |-> trim_spaces,
                             remove_dupes |-> remove_dupes, confirmed |-> TRUE,
                             before |-> comm_eng, saved |-> c.file_changed]
    /\ UNCHANGED <<undoVars, undoObs, appVars, appObs, qtArgs, qtRet, mgFile, mgRun, editorVars>>

NextActions ==
    \E ticked \in SUBSET (1 .. Len(Replacements)), trim_spaces \in BOOLEAN,
       remove_dupes \in BOOLEAN, confirm \in BOOLEAN :
          apply_actions(ticked, trim_spaces, remove_dupes, confirm)

SpecActions == InitActions /\ [][NextActions]_vars

\* ------------------------------------------------------------------------
\* migration/migrate_tags.py: migrate_file on one audio file. The tags of a
\* file: its format, the texts of its comment values (the COMM frames of an
\* MP3, the values of COMMENT or (c)cmt otherwise), its genre and its label
\* (None when the file has no such tag)
\* ------------------------------------------------------------------------

\* TAG_MAPPING in insertion order, each find text standing for r'\bfind\b'
TAG_MAPPING ==
    << [find |-> <<"y", "y">>, new_tag |-> <<"Y", "y">>],
       [find |-> <<"x">>,      new_tag |-> <<"Y", "y">>] >>

SITUATION_TAGS == { <<"X">>, <<"Y">> }

\* \w on the characters of the model
IsWordChar(c) == c \notin {" ", ",", "-"}

\* re.sub(r'\bfind\b', new_tag, s, flags=re.IGNORECASE) from position i on
RECURSIVE SubWordFrom(_, _, _, _)
SubWordFrom(s, i, find, new_tag) ==
    IF i > Len(s) THEN << >>
    ELSE IF /\ MatchAt(s, i, find, TRUE)
            /\ (i = 1 \/ ~IsWordChar(s[i - 1]))
            /\ (i + Len(find) > Len(s) \/ ~IsWordChar(s[i + Len(find)]))
         THEN new_tag \o SubWordFrom(s, i + Len(find), find, new_tag)
         ELSE <<s[i]>> \o SubWordFrom(s, i + 1, find, new_tag)

\* "for old_pattern, new_tag in TAG_MAPPING.items()" from the k-th item on
RECURSIVE ApplyTagMapping(_, _)
ApplyTagMapping(new_comment, k) ==
    IF k > Len(TAG_MAPPING) THEN new_comment
    ELSE ApplyTagMapping(SubWordFrom(new_comment, 1, TAG_MAPPING[k].find,
                                     TAG_MAPPING[k].new_tag), k + 1)

\* the comment values the function looks at: every COMM frame of an MP3,
\* the first value otherwise
CommentsRead(audio) ==
    IF audio.format = "mp3" THEN 1 .. Len(audio.comments)
    ELSE {n \in {1} : audio.comments # << >>}

\* a migration that changes the tag object in a dry run as well
MigrateTags_ignoringDryRun(audio, dry_run) ==
    LET mapped  == [n \in 1 .. Len(audio.comments) |-> ApplyTagMapping(audio.comments[n], 1)]
        rewrite == {n \in CommentsRead(audio) : mapped[n] # audio.comments[n]}
        move    == audio.genre # None /\ audio.genre.str \in SITUATION_TAGS
        a1      == IF rewrite = {} THEN audio
                   ELSE IF audio.format = "mp3"
                        THEN [audio EXCEPT !.comments =
                                 [n \in 1 .. Len(audio.comments) |->
                                     IF n \in rewrite THEN mapped[n] ELSE audio.comments[n]]]
                        ELSE [audio EXCEPT !.comments = <<mapped[1]>>]
        a2      == IF ~move THEN a1
                   ELSE [a1 EXCEPT !.label = audio.genre, !.genre = None]
    IN  [audio |-> a2, changed |-> rewrite # {} \/ move]

\* migrate_mp3 / migrate_flac / migrate_m4a up to the save: the tag object
\* as the function leaves it and the flag `changed`
MigrateTags(audio, dry_run) ==
    LET mapped  == [n \in 1 .. Len(audio.comments) |-> ApplyTagMapping(audio.comments[n], 1)]
        rewrite == {n \in CommentsRead(audio) : mapped[n] # audio.comments[n]}
        move    == audio.genre # None /\ audio.genre.str \in SITUATION_TAGS
        a1      == IF dry_run \/ rewrite = {} THEN audio
                   ELSE IF audio.format = "mp3"
                        THEN [audio EXCEPT !.comments =
                                 [n \in 1 .. Len(audio.comments) |->
                                     IF n \in rewrite THEN mapped[n] ELSE audio.comments[n]]]
                        ELSE [audio EXCEPT !.comments = <<mapped[1]>>]
        a2      == IF dry_run \/ ~move THEN a1
                   ELSE [a1 EXCEPT !.label = audio.genre, !.genre = None]
    IN  [audio |-> a2, changed |-> rewrite # {} \/ move]

\* the files the migration is run on
MigrationComments ==
    { << >>,
      << <<"x">> >>,
      << <<"5", "x", " ", "-", " ", "5", " ", "-", " ", "X", ",", " ", "y", "x">> >>,
      << <<"Y", "y">> >>,
      << <<"y", "-", "y", "y">>, <<"x", "y">> >>,
      << <<"x", "y">>, <<"x", " ", "x">> >> }

MigrationFiles ==
    [format : {"mp3", "flac", "m4a"}, comments : MigrationComments,
     genre : {None, PyStr(<<"X">>), PyStr(<<"x">>)},
     label : {None, PyStr(<<"Y">>)}, readable : BOOLEAN]

InitMigration ==
    /\ max_history = DefaultMaxHistory
    /\ history = << >>
    /\ current_index = -1
    /\ now = 0
    /\ NoUndoObs
    /\ audio_files = << >>
    /\ heap = << >>
    /\ cfg = DefaultCfg
    /\ handler = "idle"
    /\ saves = << >>
    /\ pipeRuns = << >>
    /\ outcome = None
    /\ comm_eng = None /\ qtArgs = None /\ qtRet = None /\ qaRun = None
    /\ mgFile \in MigrationFiles
    /\ mgRun = None
    /\ NoEditor

\* migrate_file(file_path, dry_run); save_ok: whether audio.save() succeeds.
\* A file the tag library cannot open, or a save that raises, ends in the
\* except branch, which returns False.
migrate_file(dry_run, save_ok) ==
    IF ~mgFile.readable
    THEN /\ mgRun' = [dry_run |-> dry_run, before |-> mgFile, audio |-> None,
                      saved |-> FALSE, ret |-> FALSE]
         /\ UNCHANGED <<mgFile, undoVars, undoObs, appVars, appObs, comm_eng, qtArgs, qtRet, qaRun, editorVars>>
    ELSE LET m    == MigrateTags(mgFile, dry_run)
             save == m.changed /\ ~dry_run
         IN  /\ mgFile' = IF save /\ save_ok THEN m.audio ELSE mgFile
             /\ mgRun' = [dry_run |-> dry_run, before |-> mgFile, audio |-> m.audio,
                          saved |-> save,
                          ret |-> IF save /\ ~save_ok THEN FALSE ELSE m.changed]
             /\ UNCHANGED <<undoVars, undoObs, appVars, appObs, comm_eng, qtArgs, qtRet, qaRun, editorVars>>

NextMigration ==
    \E dry_run \in BOOLEAN, save_ok \in BOOLEAN : migrate_file(dry_run, save_ok)

SpecMigration == InitMigration /\ [][NextMigration]_vars

\* ------------------------------------------------------------------------
\* tools/tag_editor_gui.py: QuickTagEditor, the file list and the pending
\* changes of its Find & Replace tab (field COMMENT)
\* ------------------------------------------------------------------------

\* the MP3 files the dialogs can return, and the text list of the COMM::eng
\* frame of a file (<< >> is a file without the frame: audio.get's default)
EditorFiles == {"a.mp3", "b.mp3"}
EditorComments == {<< >>, <<<<"x">>>>, <<<<"X", "y">>>>}

\* the longest file list followed
MaxEditorFiles == 2

\* the loop of preview_changes over self.files: one entry per file whose
\* field has a value that the replacement changes; an empty find text, a
\* missing frame and an exception (re.error of the replacement template)
\* leave the file out
RECURSIVE PreviewData(_, _, _, _, _)
PreviewData(fs, cm, find, replace, case_sensitive) ==
    IF fs = << >> THEN << >>
    ELSE LET file_path == Head(fs)
             tag_obj   == cm[file_path]
             current   == str_join(<<",", " ">>, tag_obj)
             new_value == IF find = << >> \/ tag_obj = << >> THEN ReError
                          ELSE IF case_sensitive
                               THEN ReOk(str_replace(current, find, replace))
                               ELSE re_sub(re_escape(find), replace, current, TRUE)
         IN  (IF new_value.ok /\ new_value.text # current
              THEN <<[file |-> file_path, old |-> current, new |-> new_value.text]>>
              ELSE << >>)
             \o PreviewData(Tail(fs), cm, find, replace, case_sensitive)

\* the loop of apply_changes over self.preview_data from entry i on: every
\* change is written to change['file'] and saved, unless opening or saving
\* the file raises (saved[i] is FALSE)
RECURSIVE ApplyData(_, _, _, _)
ApplyData(pd, i, cm, saved) ==
    IF i > Len(pd) THEN [comments |-> cm, written |-> << >>]
    ELSE IF saved[i]
         THEN LET rest == ApplyData(pd, i + 1,
                                    [cm EXCEPT ![pd[i].file] = <<pd[i].new>>], saved)
              IN  [rest EXCEPT !.written = <<pd[i].file>> \o @]
         ELSE ApplyData(pd, i + 1, cm, saved)

InitEditor ==
    /\ max_history = DefaultMaxHistory
    /\ history = << >>
    /\ current_index = -1
    /\ now = 0
    /\ NoUndoObs
    /\ audio_files = << >>
    /\ heap = << >>
    /\ cfg = DefaultCfg
    /\ handler = "idle"
    /\ saves = << >>
    /\ pipeRuns = << >>
    /\ outcome = None
    /\ comm_eng = None /\ qtArgs = None /\ qtRet = None
    /\ qaRun = None /\ mgFile = None /\ mgRun = None
    /\ files = << >>
    /\ preview_data = << >>
    /\ comments \in [EditorFiles -> EditorComments]
    /\ edRun = None

EditorIdle == UNCHANGED <<undoVars, undoObs, appVars, appObs, comm_eng, qtArgs, qtRet,
                          qaRun, mgFile, mgRun>>

\* QuickTagEditor.add_files: the dialog returns one file (a cancelled dialog
\* changes nothing)
add_files(file_path) ==
    /\ Len(files) < MaxEditorFiles
    /\ files' = files \o <<file_path>>
    /\ edRun' = [handler |-> "add_files", changes |-> << >>, written |-> << >>]
    /\ UNCHANGED <<preview_data, comments>>
    /\ EditorIdle

\* QuickTagEditor.clear_files
clear_files ==
    /\ files' = << >>
    /\ edRun' = [handler |-> "clear_files", changes |-> << >>, written |-> << >>]
    /\ UNCHANGED <<preview_data, comments>>
    /\ EditorIdle

\* QuickTagEditor.preview_changes with the widgets' find text, replacement
\* and case box
editor_preview_changes(find, replace, case_sensitive) ==
    /\ preview_data' = IF files = << >> THEN preview_data
                       ELSE PreviewData(files, comments, find, replace, case_sensitive)
    /\ edRun' = [handler |-> "preview_changes", changes |-> << >>, written |-> << >>]
    /\ UNCHANGED <<files, comments>>
    /\ EditorIdle

\* QuickTagEditor.apply_changes with the answer to the confirmation and the
\* outcome of each change's open and save
editor_apply_changes(confirm, saved) ==
    LET run == ApplyData(preview_data, 1, comments, saved)
    IN  /\ IF preview_data = << >> \/ ~confirm
           THEN /\ UNCHANGED <<preview_data, comments>>
                /\ edRun' = [handler |-> "apply_changes", changes |-> << >>,
                             written |-> << >>]
           ELSE /\ comments' = run.comments
                /\ preview_data' = << >>
                /\ edRun' = [handler |-> "apply_changes", changes |-> preview_data,
                             written |-> run.written]
        /\ UNCHANGED files
        /\ EditorIdle

NextEditor ==
    \/ \E file_path \in EditorFiles : add_files(file_path)
    \/ clear_files
    \/ \E find \in {<< >>, <<"x">>}, replace \in {<<"y">>, <<"\\">>},
          case_sensitive \in BOOLEAN :
            editor_preview_changes(find, replace, case_sensitive)
    \/ \E confirm \in BOOLEAN, saved \in [1 .. MaxEditorFiles -> BOOLEAN] :
            editor_apply_changes(confirm, saved)

SpecEditor == InitEditor /\ [][NextEditor]_vars

\* ------------------------------------------------------------------------
\* Claims about the UndoManager (checked under SpecUndo)
\* ------------------------------------------------------------------------

\* C1: after max_history + 5 record_action calls with no undo in between,
\* the history holds exactly max_history entries, they are the max_history
\* most recently recorded entries in recording order (so the oldest were
\* evicted), and current_index points at the newest.
C1_HistoryBound ==
    streak >= max_history + 5 =>
        /\ Len(history) = max_history
        /\ history = SubSeq(log, Len(log) - max_history + 1, Len(log))
        /\ current_index = max_history - 1

C1_Witness ==
    /\ streak = max_history + 5
    /\ max_history >= 2
    /\ Len(log) > streak

\* C2: record_action called while current_index < len(history) - 1 drops
\* every entry after current_index before appending the new one, and
\* can_redo() is false right after the call, also when the history was full.
C2_RecordDiscardsRedo ==
    (umOp = "record_action" /\ umPre.current_index < Len(umPre.history) - 1) =>
        /\ history = Append(Prefix(umPre.history, umPre.current_index + 1),
                            log[Len(log)])
        /\ ~can_redo(history, current_index)
        /\ current_index = Len(history) - 1

C2_Witness ==
    /\ umOp = "record_action"
    /\ umPre.current_index < Len(umPre.history) - 1
    /\ umPre.current_index >= 0
    /\ Len(umPre.history) = max_history

\* C3: undo() returns the entry at current_index and decrements
\* current_index by exactly one, leaving the history list alone; at
\* current_index = -1 it returns None and changes nothing.
C3_Undo ==
    umOp = "undo" =>
        /\ history = umPre.history
        /\ IF umPre.current_index = -1
           THEN umRet = None /\ current_index = -1
           ELSE /\ umRet = umPre.history[umPre.current_index + 1]
                /\ current_index = umPre.current_index - 1

C3_Witness ==
    /\ umOp = "undo"
    /\ umRet # None
    /\ current_index >= 0
    /\ current_index < Len(history) - 2

\* C4: redo() acts exactly when current_index < len(history) - 1: it then
\* advances current_index by one and returns the entry now at that
\* position, an entry that was handed to record_action; otherwise it
\* returns None and changes nothing.
C4_Redo ==
    umOp = "redo" =>
        /\ history = umPre.history
        /\ IF umPre.current_index < Len(umPre.history) - 1
           THEN /\ current_index = umPre.current_index + 1
                /\ umRet = history[current_index + 1]
                /\ umRet # None
                /\ \E i \in 1 .. Len(log) : log[i] = umRet
           ELSE /\ umRet = None
                /\ current_index = umPre.current_index

C4_Witness ==
    /\ umOp = "redo"
    /\ umRet # None
    /\ current_index = Len(history) - 1
    /\ Len(history) >= 2

\* ------------------------------------------------------------------------
\* Claims about the pipeline (checked under SpecPipeline)
\* ------------------------------------------------------------------------

\* the order the claim names: Replace, Trim, Copy, Recase, Affix, Remove, Split
KindRank(kind) ==
    CASE kind = "replace" -> 1 [] kind = "trim" -> 2 [] kind = "copy" -> 3
      [] kind = "case" -> 4    [] kind = "add" -> 5  [] kind = "remove" -> 6
      [] kind = "split" -> 7

EnabledKinds == {k \in Kinds : OpEnabled(k, cfg)}

\* C5: the operations of a run are ticked ones, they run in the order
\* Replace, Trim, Copy, Recase, Affix, Remove, Split, each reads the record
\* the one before it left (the first reads the input, the last leaves the
\* output), and every ticked operation runs; only a run that re.error left
\* through the Replace block ran nothing.
C5_FixedOrder ==
    \A n \in 1 .. Len(pipeRuns) :
        LET run == pipeRuns[n]
            t   == run.trace
        IN  /\ \A i \in 1 .. Len(t) : t[i].kind \in EnabledKinds
            /\ \A i \in 1 .. (Len(t) - 1) :
                  /\ KindRank(t[i].kind) < KindRank(t[i + 1].kind)
                  /\ t[i + 1].before = t[i].after
            /\ \A i \in 1 .. Len(t) :
                  t[i].after = RunOp(t[i].kind, t[i].before, cfg).tags
            /\ IF Len(t) = 0 THEN run.output = run.input
               ELSE t[1].before = run.input /\ t[Len(t)].after = run.output
            /\ IF run.raised THEN t = << >>
               ELSE {t[i].kind : i \in 1 .. Len(t)} = EnabledKinds

C5_Witness ==
    /\ Len(pipeRuns) >= 1
    /\ Len(pipeRuns[1].trace) = 7
    /\ pipeRuns[1].trace[3].kind = "copy"
    /\ {cfg.copy_from, cfg.copy_to} \subseteq DOMAIN pipeRuns[1].input
    /\ pipeRuns[1].trace[3].before[cfg.copy_from] # pipeRuns[1].input[cfg.copy_from]
    /\ pipeRuns[1].trace[2].before[cfg.copy_from] # pipeRuns[1].trace[3].before[cfg.copy_from]
    /\ pipeRuns[1].output[cfg.copy_to] # pipeRuns[1].input[cfg.copy_to]

\* C6: with no operation ticked, the pipeline leaves the record equal to the
\* one it was given (same fields, same values), whatever the parameter
\* widgets hold.
NoBoxTicked ==
    ~(\/ cfg.op_replace_var \/ cfg.op_trim_var \/ cfg.op_copy_var \/ cfg.op_case_var
      \/ cfg.op_add_var \/ cfg.op_remove_var \/ cfg.op_split_var)

C6_AllDisabledIdentity ==
    NoBoxTicked =>
        /\ \A n \in 1 .. Len(pipeRuns) :
              /\ ~pipeRuns[n].raised
              /\ pipeRuns[n].output = pipeRuns[n].input
        /\ heap[audio_files[1].tags] = heap[audio_files[1].original_tags]

C6_Witness ==
    /\ NoBoxTicked
    /\ Len(pipeRuns) >= 1
    /\ cfg.replace_find # << >>
    /\ cfg.replace_field \in DOMAIN pipeRuns[1].input
    /\ \E i \in 1 .. Len(pipeRuns[1].input[cfg.replace_field]) :
          LowerChar(pipeRuns[1].input[cfg.replace_field][i]) = cfg.replace_find[1]

\* C7 as stated: after apply_operations_to_file the record object passed in
\* still holds the field values it had before the call.
C7_InputUntouched ==
    handler = "apply_operations_to_file" =>
        heap[audio_files[1].tags] = pipeRuns[Len(pipeRuns)].input

\* C7 amended: apply_operations_to_file writes into the dict object of the
\* AudioFile it is given: after the call that same object holds the
\* pipeline's result, and the values from before the first call are those
\* of the copy load_tags made (original_tags), which the call leaves alone.
C7_InPlace ==
    handler = "apply_operations_to_file" =>
        /\ audio_files[1].tags = 1
        /\ heap[audio_files[1].tags] = pipeRuns[Len(pipeRuns)].output
        /\ heap[audio_files[1].original_tags] = pipeRuns[1].input

C7_Witness ==
    /\ handler = "apply_operations_to_file"
    /\ pipeRuns[Len(pipeRuns)].output # pipeRuns[Len(pipeRuns)].input
    /\ heap[audio_files[1].tags] # heap[audio_files[1].original_tags]

\* ------------------------------------------------------------------------
\* Claims about the handlers (checked under Spec)
\* ------------------------------------------------------------------------

Records  == FilesView(audio_files, heap)
Entries  == HistoryView(history, heap)

\* C8: preview_changes changes no record (neither the previewed file's nor
\* another's, tags or original_tags), makes no save_tags call and leaves the
\* undo history and its position as they were.
C8_PreviewFrame ==
    [][handler' = "preview_changes" =>
          /\ Records' = Records
          /\ Entries' = Entries
          /\ current_index' = current_index
          /\ saves' = << >>]_vars

C8_Witness ==
    /\ handler = "preview_changes"
    /\ Len(pipeRuns) = 1
    /\ ~pipeRuns[1].raised
    /\ pipeRuns[1].output # pipeRuns[1].input
    /\ Len(history) >= 1

\* C9 as stated: in a confirmed batch every selected file is transformed and
\* its save attempted exactly once, in selection order, whatever the earlier
\* saves returned; success_count is the number of saves that succeeded and
\* count the number of selected files.
C9_EveryItemOnce ==
    (handler = "apply_changes" /\ outcome.confirmed) =>
        LET selected == get_selected_files(audio_files)
        IN  /\ [k \in 1 .. Len(pipeRuns) |-> pipeRuns[k].file] = selected
            /\ \A k \in 1 .. Len(pipeRuns) : ~pipeRuns[k].raised
            /\ [k \in 1 .. Len(saves) |-> saves[k].file] = selected
            /\ outcome.success_count =
                  Cardinality({k \in 1 .. Len(saves) : saves[k].ok})
            /\ outcome.count = Len(selected)

\* a step that records exactly one entry: the entries up to the position
\* stay, one entry stamped with the clock follows them, the position is on it
RecordsOneEntry ==
    /\ Len(history') = current_index + 2
    /\ current_index' = current_index + 1
    /\ Prefix(Entries', current_index + 1) = Prefix(Entries, current_index + 1)
    /\ history'[Len(history')].timestamp = now

RecordsNoEntry ==
    /\ Entries' = Entries
    /\ current_index' = current_index

SnapshotAddrs == Roots(<< >>, history)

\* no snapshot is the dict object of a file's tags or original_tags, and no
\* two snapshots are one object
SnapshotsAreCopies ==
    /\ \A n \in 1 .. Len(SnapshotAddrs), i \in 1 .. Len(audio_files) :
          SnapshotAddrs[n] \notin {audio_files[i].tags, audio_files[i].original_tags}
    /\ \A m, n \in 1 .. Len(SnapshotAddrs) : SnapshotAddrs[m] = SnapshotAddrs[n] => m = n

\* C11: a snapshot held by a History Entry is an object of its own (no file's
\* tags or original_tags, no other snapshot), and for as long as its entry
\* stays in the history its field values stay those captured, whatever
\* apply, preview, undo or redo step is taken, also after undo has restored
\* it into its file and the file was transformed again.
C11_SnapshotImmutable ==
    /\ []SnapshotsAreCopies
    /\ [][\A n \in 1 .. Len(history) :
            (n <= Len(history') /\ history'[n].timestamp = history[n].timestamp)
                => Entries'[n] = Entries[n]]_vars

C11_Witness ==
    /\ handler = "preview_changes"
    /\ Len(history) = 1
    /\ current_index = -1
    /\ Len(pipeRuns) = 1
    /\ pipeRuns[1].output # pipeRuns[1].input
    /\ \E j \in 1 .. Len(history[1].snapshots) :
          /\ history[1].snapshots[j][1] = pipeRuns[1].file
          /\ heap[history[1].snapshots[j][2]] = pipeRuns[1].input
          /\ heap[audio_files[pipeRuns[1].file].original_tags] = pipeRuns[1].input

\* the record load_tags gave file i (the first file is the one whose load
\* may have failed; a record never gains or loses a field afterwards)
LoadedRecord(i) ==
    IF i = 2 THEN RecB
    ELSE IF DOMAIN heap[audio_files[1].tags] = {} THEN EmptyDict ELSE RecA

\* an undo step restores every (file, snapshot) pair of the entry at the
\* position, attempts a save of each restored record in the entry's order,
\* and leaves the other files' records alone
UndoRestoresEntry ==
    (handler' = "undo_last_action" /\ current_index >= 0) =>
        LET snapshots == Entries[current_index + 1].snapshots
        IN  /\ current_index' = current_index - 1
            /\ \A j \in 1 .. Len(snapshots) :
                  Records'[snapshots[j][1]].tags = snapshots[j][2]
            /\ \A i \in 1 .. Len(audio_files) :
                  (\A j \in 1 .. Len(snapshots) : snapshots[j][1] # i)
                      => Records'[i].tags = Records[i].tags
            /\ Len(saves') = Len(snapshots)
            /\ \A j \in 1 .. Len(snapshots) :
                  /\ saves'[j].file = snapshots[j][1]
                  /\ saves'[j].tags = snapshots[j][2]

\* C12: once every recorded batch has been undone (k batches, k undos), each
\* file holds in memory the record it had before the first batch; each undo
\* restores every (file, snapshot) pair of its entry and attempts a save of
\* the restored record.
C12_UndoRestores ==
    /\ [](current_index = -1 =>
            \A i \in 1 .. Len(audio_files) : Records[i].tags = LoadedRecord(i))
    /\ [][UndoRestoresEntry]_vars

C12_Witness ==
    /\ handler = "undo_last_action"
    /\ current_index = -1
    /\ Len(history) = 2
    /\ Len(saves) = 2
    /\ \E j, k \in 1 .. 2 :
          /\ Entries[1].snapshots[j][1] = 2
          /\ Entries[2].snapshots[k][1] = 2
          /\ Entries[1].snapshots[j][2] # Entries[2].snapshots[k][2]
          /\ Entries[1].snapshots[j][2] = Records[2].tags

\* ------------------------------------------------------------------------
\* Claims about the comment codec (checked under SpecCodec)
\* ------------------------------------------------------------------------

\* str.isdigit on this alphabet
IsDigits(s) ==
    s # << >> /\ \A i \in 1 .. Len(s) :
        s[i] \in {"0", "1", "2", "3", "4", "5", "6", "7", "8", "9"}

\* the arguments the round trip is promised for: a non-empty key, a
\* non-negative integer rating, tags without comma and without " - "
RoundTripArgs(a) ==
    /\ "str" \in DOMAIN a.key /\ a.key.str # << >>
    /\ "int" \in DOMAIN a.energy /\ a.energy.int >= 0
    /\ \A n \in 1 .. Len(a.tags) :
          ~str_contains(a.tags[n], <<",">>) /\ ~str_contains(a.tags[n], MIK_SEP)

\* C13 as stated: decoding what set_tag_list wrote for (k, r, t) gives back
\* k, r (as its decimal numeral, the form ratings are read in) and t, for
\* every non-empty k, non-negative integer r and list t, the empty list
\* included, whose elements hold no comma and no " - ".
C13_RoundTrip ==
    (qtArgs # None /\ qtRet # None /\ RoundTripArgs(qtArgs)) =>
        /\ qtRet.key = qtArgs.key
        /\ qtRet.energy = PyStr(Numeral(qtArgs.energy.int))
        /\ qtRet.tags = qtArgs.tags

\* Decode as the specification words it: composite exactly when there are
\* three parts and the second is all digits, plain otherwise
DecodeExactlyThree(raw) ==
    LET parts == str_split(raw, MIK_SEP)
    IN  IF Len(parts) = 3 /\ IsDigits(parts[2])
        THEN [key |-> PyStr(parts[1]), energy |-> PyStr(parts[2]),
              tags |-> SplitTags(parts[3])]
        ELSE [key |-> None, energy |-> None, tags |-> SplitTags(raw)]

\* C14 as stated: get_tag_list returns the composite reading exactly for a
\* comment of three " - " parts with an all-digit second part, and for every
\* other comment no key, no rating and the whole text split on ",".
C14_DecodeShape ==
    (qtRet # None /\ comm_eng # None) => qtRet = DecodeExactlyThree(comm_eng.str)

\* ------------------------------------------------------------------------
\* Claims about loaded records (checked under Spec)
\* ------------------------------------------------------------------------

\* C15 as stated: the tags of every AudioFile hold every field of TAG_FIELDS
\* as a key, from construction on and after every apply, preview and undo,
\* also for a file whose tags could not be loaded.
C15_AllFieldsPresent ==
    \A i \in 1 .. Len(audio_files) : TAG_FIELDS \subseteq DOMAIN Records[i].tags

\* ------------------------------------------------------------------------
\* Claims about single operations (checked under SpecPipeline)
\* ------------------------------------------------------------------------

\* the fields an operation names in its widgets, inputs and outputs alike
ReferencedFields(kind, c) ==
    CASE kind = "replace" -> {c.replace_field}
      [] kind = "trim"    -> {c.trim_field} \ {ALL_FIELDS}
      [] kind = "copy"    -> {c.copy_from, c.copy_to}
      [] kind = "case"    -> {c.case_field}
      [] kind = "add"     -> {c.add_field}
      [] kind = "remove"  -> {c.remove_field}
      [] kind = "split"   -> {c.split_source, c.split_left_field, c.split_right_field}

\* the operation's required text parameter is empty
RequiredParameterEmpty(kind, c) ==
    CASE kind = "replace" -> c.replace_find = << >>
      [] kind = "remove"  -> c.remove_text = << >>
      [] kind = "split"   -> c.split_separator = << >>
      [] OTHER            -> FALSE

\* C16 as stated: an enabled operation that names a field the record does
\* not have (input or output), or whose required parameter is empty, leaves
\* the record as it found it: no field added, removed or changed.
C16_SkipDontFail ==
    \A n \in 1 .. Len(pipeRuns) : \A k \in 1 .. Len(pipeRuns[n].trace) :
        LET step == pipeRuns[n].trace[k]
        IN  (\/ ~(ReferencedFields(step.kind, cfg) \subseteq DOMAIN step.before)
             \/ RequiredParameterEmpty(step.kind, cfg))
                => step.after = step.before

\* ------------------------------------------------------------------------
\* SpecBadRegex: the application with Replace ticked in regex mode and a
\* pattern re cannot compile, every set of the Trim, Copy, Case and Split
\* boxes ticked
\* ------------------------------------------------------------------------
BadPatterns == {<<"(">>, <<"x", "\\">>}

BadRegexConfigs ==
    {Flags(on \cup {"replace"})
        @@ [ChainParams EXCEPT !.replace_use_regex = TRUE, !.replace_find = pat]
        : on \in SUBSET {"trim", "copy", "case", "split"}, pat \in BadPatterns}

InitBadRegex ==
    /\ max_history = DefaultMaxHistory
    /\ history = << >>
    /\ current_index = -1
    /\ now = 0
    /\ NoUndoObs
    /\ audio_files = <<NewAudioFile(1), NewAudioFile(3)>>
    /\ \E r1 \in {RecA, EmptyDict} : heap = <<r1, r1, RecB, RecB>>
    /\ cfg \in BadRegexConfigs
    /\ handler = "idle"
    /\ saves = << >>
    /\ pipeRuns = << >>
    /\ outcome = None
    /\ NoToolCall

NextBadRegex ==
    \/ \E i \in 1 .. Len(audio_files) : on_file_select(i)
    \/ preview_changes
    \/ \E confirm \in BOOLEAN, oks \in [1 .. Len(audio_files) -> BOOLEAN] :
          apply_changes(confirm, oks)

SpecBadRegex == InitBadRegex /\ [][NextBadRegex]_vars

\* C17: with Replace in regex mode and a malformed pattern, no
\* apply_operations_to_file call ends in an exception, each call leaves the
\* record as the later ticked operations alone make it (the Replace step
\* changes nothing), and a confirmed batch transforms and saves every
\* selected file and runs to its end.
C17_BadRegexSkipped ==
    /\ \A k \in 1 .. Len(pipeRuns) :
          /\ ~pipeRuns[k].raised
          /\ pipeRuns[k].output =
                RunBlocks(Tail(PipelineOrder), 1, pipeRuns[k].input, cfg).tags
    /\ (handler = "apply_changes" /\ outcome.confirmed) =>
          /\ outcome.completed
          /\ [k \in 1 .. Len(pipeRuns) |-> pipeRuns[k].file]
                = get_selected_files(audio_files)
          /\ [k \in 1 .. Len(saves) |-> saves[k].file]
                = get_selected_files(audio_files)

\* a confirmed batch of two files under a malformed pattern with Trim and
\* Split ticked: both records were changed by the later operations
C17_Witness ==
    /\ handler = "apply_changes" /\ outcome.confirmed
    /\ cfg.op_replace_var /\ cfg.replace_use_regex /\ ~re_parse(cfg.replace_find, 1).ok
    /\ cfg.op_trim_var /\ cfg.op_split_var
    /\ Len(pipeRuns) = 2
    /\ \A k \in 1 .. 2 : pipeRuns[k].output # pipeRuns[k].input
    /\ Len(saves) = 2

\* the steps of kind `kind` that ran in the recorded pipeline calls, each
\* with the record it found and the record it left
StepsOf(kind) ==
    {st \in UNION {{pipeRuns[n].trace[k] : k \in 1 .. Len(pipeRuns[n].trace)} :
                        n \in 1 .. Len(pipeRuns)} : st.kind = kind}

\* C18 as stated: a Copy step between two fields of the record leaves in the
\* destination its old value, a blank and the source value when append is
\* set and the destination was not empty, and exactly the source value in
\* every other case; the source field keeps its value.
C18_CopyAppend ==
    \A st \in StepsOf("copy") :
        {cfg.copy_from, cfg.copy_to} \subseteq DOMAIN st.before =>
            /\ st.after[cfg.copy_to] =
                  IF cfg.copy_append /\ st.before[cfg.copy_to] # << >>
                  THEN st.before[cfg.copy_to] \o <<" ">> \o st.before[cfg.copy_from]
                  ELSE st.before[cfg.copy_from]
            /\ st.after[cfg.copy_from] = st.before[cfg.copy_from]

\* the places where sep occurs in s
Occurrences(s, sep) ==
    {i \in 1 .. Len(s) - Len(sep) + 1 : SubSeq(s, i, i + Len(sep) - 1) = sep}

FirstOccurrence(s, sep) ==
    CHOOSE i \in Occurrences(s, sep) : \A j \in Occurrences(s, sep) : i <= j

\* C19: a Split step on a record that has the source field, with a
\* non-empty separator, assigns to the left destination the trimmed text
\* before the first occurrence of the separator and then to the right
\* destination the trimmed text after it, later occurrences included; when
\* the separator does not occur it assigns the trimmed source to the left
\* destination and nothing else. No other field changes, and a destination
\* may be the source field.
C19_SplitFirst ==
    \A st \in StepsOf("split") :
        (cfg.split_source \in DOMAIN st.before /\ cfg.split_separator # << >>) =>
            LET s   == st.before[cfg.split_source]
                sep == cfg.split_separator
            IN  IF Occurrences(s, sep) # {}
                THEN LET i == FirstOccurrence(s, sep)
                     IN  st.after =
                            DictSet(DictSet(st.before, cfg.split_left_field,
                                            str_strip(SubSeq(s, 1, i - 1))),
                                    cfg.split_right_field,
                                    str_strip(SubSeq(s, i + Len(sep), Len(s))))
                ELSE st.after = DictSet(st.before, cfg.split_left_field, str_strip(s))

\* a value with two separators was split into its source field and another:
\* the second separator is still in the right part
C19_Witness ==
    \E st \in StepsOf("split") :
        /\ cfg.split_source \in DOMAIN st.before
        /\ cfg.split_left_field = cfg.split_source
        /\ cfg.split_right_field # cfg.split_source
        /\ cfg.split_separator # << >>
        /\ Cardinality(Occurrences(st.before[cfg.split_source], cfg.split_separator)) = 2
        /\ Occurrences(st.after[cfg.split_right_field], cfg.split_separator) # {}
        /\ st.after[cfg.split_source] # st.before[cfg.split_source]

\* the Split steps that ran on a value holding the separator exactly once
SplitOnceSteps ==
    {st \in StepsOf("split") :
        /\ cfg.split_source \in DOMAIN st.before
        /\ cfg.split_separator # << >>
        /\ Cardinality(Occurrences(st.before[cfg.split_source], cfg.split_separator)) = 1}

\* what joining the two destinations with the separator gives after a step
Rejoined(st) ==
    st.after[cfg.split_left_field] \o cfg.split_separator
        \o st.after[cfg.split_right_field]

\* C20 as stated: after a Split of a value F holding the separator S exactly
\* once, left destination + S + right destination is F.
C20_SplitRejoin ==
    \A st \in SplitOnceSteps : Rejoined(st) = st.before[cfg.split_source]

\* C20: after a Split of a value F holding the separator S exactly once,
\* into two different destination fields, left destination + S + right
\* destination is the trimmed text before S, S, and the trimmed text after
\* S; it is F exactly when neither half of F begins or ends with white
\* space.
C20_SplitRejoinTrimmed ==
    \A st \in SplitOnceSteps :
        cfg.split_left_field # cfg.split_right_field =>
            LET s    == st.before[cfg.split_source]
                sep  == cfg.split_separator
                i    == FirstOccurrence(s, sep)
                pre  == SubSeq(s, 1, i - 1)
                post == SubSeq(s, i + Len(sep), Len(s))
            IN  /\ Rejoined(st) = str_strip(pre) \o sep \o str_strip(post)
                /\ Rejoined(st) = s <=> (str_strip(pre) = pre /\ str_strip(post) = post)

\* a value holding " - " once, with no other blank around its halves, was
\* split into two fields other than each other: joined again they give it
C20_Witness ==
    \E st \in SplitOnceSteps :
        /\ cfg.split_left_field # cfg.split_right_field
        /\ cfg.split_left_field # cfg.split_source
        /\ Len(cfg.split_separator) = 3
        /\ st.before[cfg.split_source] # << >>
        /\ Rejoined(st) = st.before[cfg.split_source]

\* C21 as stated: a Case step in sentence mode upper-cases the first
\* character of the field and leaves every other character as it was; an
\* empty value stays empty.
C21_SentenceCase ==
    \A st \in StepsOf("case") :
        (cfg.case_mode = "sentence" /\ cfg.case_field \in DOMAIN st.before) =>
            LET value == st.before[cfg.case_field]
            IN  st.after = DictSet(st.before, cfg.case_field,
                                   [i \in 1 .. Len(value) |->
                                       IF i = 1 THEN UpperChar(value[i]) ELSE value[i]])

\* C22 as stated: get_tag_list on an empty comment text returns no key, no
\* rating and a tag list of zero elements.
C22_EmptyComment ==
    (qtRet # None /\ comm_eng = PyStr(<< >>)) =>
        qtRet = [key |-> None, energy |-> None, tags |-> << >>]

\* ------------------------------------------------------------------------
\* Claims about the quick tag actions (checked under SpecActions)
\* ------------------------------------------------------------------------

\* a run of apply_actions that was confirmed with rename boxes only
RenameRun ==
    /\ qaRun # None /\ qaRun.confirmed
    /\ ~qaRun.trim_spaces /\ ~qaRun.remove_dupes
    /\ qaRun.before # None

\* the tag is a key of the rename map of the ticked actions (the tool
\* compares without regard to case)
InRenameMap(tag, ticked) ==
    \E k \in ticked : str_lower(Replacements[k].find) = str_lower(tag)

\* the image of a tag under the rename map, the tag itself when it is no key
Renamed(tag, ticked) ==
    IF InRenameMap(tag, ticked)
    THEN Replacements[CHOOSE k \in ticked :
                         /\ str_lower(Replacements[k].find) = str_lower(tag)
                         /\ \A j \in ticked :
                               str_lower(Replacements[j].find) = str_lower(tag) => k <= j].replace
    ELSE tag

\* C23 as stated: a rename run reads the comment as the codec is specified
\* to (key, rating and tags for "<key> - <rating> - <tags>", tags alone
\* otherwise). When no tag is a key of the rename map the comment is not
\* rewritten. When one is and the comment is composite with a non-empty key,
\* the new comment decodes to the same key, the same rating and the images
\* of the tags, in the same number and order.
C23_RenameComposite ==
    RenameRun =>
        LET old == DecodeExactlyThree(qaRun.before.str)
            new == [i \in 1 .. Len(old.tags) |-> Renamed(old.tags[i], qaRun.ticked)]
        IN  IF \A i \in 1 .. Len(old.tags) : ~InRenameMap(old.tags[i], qaRun.ticked)
            THEN comm_eng = qaRun.before /\ ~qaRun.saved
            ELSE (old.key # None /\ old.key.str # << >>) =>
                    /\ qaRun.saved
                    /\ DecodeExactlyThree(comm_eng.str) =
                          [key |-> old.key, energy |-> old.energy, tags |-> new]

\* ------------------------------------------------------------------------
\* Claims about redo and the entries of a batch (checked under Spec)
\* ------------------------------------------------------------------------

\* C24: a redo_last_action step changes no file's record and no snapshot,
\* runs no operation and saves nothing; it only moves the position.
C24_RedoRefuses ==
    [][handler' = "redo_last_action" =>
          /\ Records' = Records
          /\ Entries' = Entries
          /\ saves' = << >>
          /\ pipeRuns' = << >>]_vars

\* redo has stepped from before the first of two undone entries onto it,
\* and a file of that entry still holds the snapshot taken before the batch
C24_Witness ==
    /\ handler = "redo_last_action"
    /\ Len(history) = 2 /\ current_index = 0
    /\ \E j \in 1 .. Len(Entries[1].snapshots) :
          /\ Entries[1].snapshots[j][1] = 2
          /\ Records[2].tags = Entries[1].snapshots[j][2]
          /\ Records[2].tags = LoadedRecord(2)

\* C25: a batch that runs to its end records an entry that holds, for the
\* files selected when it started and in their order, one pair of the file
\* and the record the file had when the batch started.
C25_SnapshotsBeforeBatch ==
    [][(handler' = "apply_changes" /\ outcome'.completed) =>
          LET selected == get_selected_files(audio_files)
              entry    == Entries'[current_index' + 1]
          IN  /\ entry.timestamp = now
              /\ Len(entry.snapshots) = Len(selected)
              /\ \A k \in 1 .. Len(selected) :
                    entry.snapshots[k] = <<selected[k], Records[selected[k]].tags>>]_vars

\* a batch of two files changed both and saved the first only; its entry
\* holds the two records as they were before, first file first
C25_Witness ==
    /\ handler = "apply_changes" /\ outcome.completed
    /\ Len(pipeRuns) = 2 /\ Len(saves) = 2
    /\ saves[1].ok /\ ~saves[2].ok
    /\ LET entry == Entries[current_index + 1]
       IN  /\ Len(entry.snapshots) = 2
           /\ \A k \in 1 .. 2 :
                 /\ entry.snapshots[k] = <<pipeRuns[k].file, pipeRuns[k].input>>
                 /\ pipeRuns[k].output # pipeRuns[k].input
                 /\ Records[pipeRuns[k].file].tags = pipeRuns[k].output

\* ------------------------------------------------------------------------
\* Claims about the migration script (checked under SpecMigration)
\* ------------------------------------------------------------------------

\* C26: a migrate_file call with dry_run=True never calls save, leaves the
\* comment, genre and label of the loaded tag object and the file as they
\* were, and returns True exactly when the same call with dry_run=False
\* would change the tag object.
C26_DryRunWritesNothing ==
    (mgRun # None /\ mgRun.dry_run) =>
        /\ ~mgRun.saved
        /\ mgRun.audio \in {None, mgRun.before}
        /\ mgFile = mgRun.before
        /\ mgRun.ret = (/\ mgRun.before.readable
                        /\ MigrateTags(mgRun.before, FALSE).audio # mgRun.before)

\* a dry run on an MP3 whose second comment frame needs rewriting and whose
\* genre needs moving returned True and left the file as it was
C26_Witness ==
    /\ mgRun # None /\ mgRun.dry_run /\ mgRun.ret
    /\ mgFile = mgRun.before
    /\ mgFile.format = "mp3" /\ Len(mgFile.comments) = 2
    /\ ApplyTagMapping(mgFile.comments[2], 1) # mgFile.comments[2]
    /\ mgFile.genre # None /\ mgFile.genre.str \in SITUATION_TAGS

\* ------------------------------------------------------------------------
\* Further claims about the UndoManager (checked under SpecUndo)
\* ------------------------------------------------------------------------

\* C27: for max_history >= 1, in every state reached by record_action, undo
\* and redo in any order, -1 <= current_index <= len(history) - 1 and
\* len(history) <= max_history, so the entry undo reads (at current_index)
\* and the entry redo reads (at current_index + 1) exist.
C27_HistoryInvariant ==
    max_history >= 1 =>
        /\ -1 <= current_index /\ current_index <= Len(history) - 1
        /\ Len(history) <= max_history
        /\ can_undo(history, current_index) => current_index + 1 \in DOMAIN history
        /\ can_redo(history, current_index) => (current_index + 1) + 1 \in DOMAIN history

\* the history is full, entries were evicted, and every entry is undone
C27_Witness ==
    /\ umOp = "undo" /\ umRet # None
    /\ max_history >= 2
    /\ Len(history) = max_history
    /\ Len(log) > max_history
    /\ current_index = -1

\* C28: where can_undo() holds, undo() and then redo() return the same entry
\* and leave current_index where it was; where can_redo() holds, redo() and
\* then undo() do; neither touches the history list. A redo step that
\* follows an undo step returns the entry the undo returned.
C28_UndoRedoRoundTrip ==
    /\ [](can_undo(history, current_index) =>
             LET u == undo(history, current_index)
                 r == redo(history, u.current_index)
             IN  u.ret # None /\ r.ret = u.ret /\ r.current_index = current_index)
    /\ [](can_redo(history, current_index) =>
             LET r == redo(history, current_index)
                 u == undo(history, r.current_index)
             IN  r.ret # None /\ u.ret = r.ret /\ u.current_index = current_index)
    /\ [][(umOp = "undo" /\ umRet # None /\ umOp' = "redo") =>
             /\ umRet' = umRet
             /\ current_index' = umPre.current_index
             /\ history' = umPre.history]_vars
    /\ [][(umOp = "redo" /\ umRet # None /\ umOp' = "undo") =>
             /\ umRet' = umRet
             /\ current_index' = umPre.current_index
             /\ history' = umPre.history]_vars

\* a redo has brought back the middle one of three entries
C28_Witness ==
    /\ umOp = "redo" /\ umRet # None
    /\ Len(history) = 3 /\ current_index = 1
    /\ umRet = history[2]
    /\ umPre.current_index = 0

\* ------------------------------------------------------------------------
\* Claims about failed saves (checked under Spec)
\* ------------------------------------------------------------------------

\* C29 as stated: when a batch has run to its end, the record of every
\* selected file equals the record last persisted for it (original_tags),
\* also for a file whose save failed.
C29_NoDivergenceAfterBatch ==
    (handler = "apply_changes" /\ outcome.completed) =>
        \A k \in 1 .. Len(saves) :
            Records[saves[k].file].tags = Records[saves[k].file].original_tags


\* ------------------------------------------------------------------------
\* Claims about the Quick Tag Editor (checked under SpecEditor)
\* ------------------------------------------------------------------------

\* C30: under any sequence of add_files, preview_changes, clear_files and
\* apply_changes, every file apply_changes writes is a member of the file
\* list at the time of the write, each previewed change is written at most
\* once, and preview_data is empty after an apply that wrote
C30_PendingChanges ==
    (edRun # None /\ edRun.handler = "apply_changes") =>
        /\ \A k \in 1 .. Len(edRun.written) :
               \E n \in 1 .. Len(files) : files[n] = edRun.written[k]
        /\ Len(edRun.written) <= Len(edRun.changes)
        /\ (edRun.changes # << >> => preview_data = << >>)

=============================================================================
